---- MODULE Spec2Model ----
(***************************************************************************)
(* OpenClaw Sentinel: policy decision engine, per-host circuit breaker,    *)
(* quarantine registry, confirmation tokens, hash-chained audit log and    *)
(* the proxy interceptor that sequences them.                              *)
(*                                                                         *)
(* Conventions.                                                            *)
(*  - A JavaScript string that the code inspects (tool, host, agent, glob  *)
(*    pattern, rule name, serialized arguments) is a sequence of           *)
(*    one-character strings, so that includes(), the glob matcher and the  *)
(*    case-insensitive comparison are computed, not assumed.               *)
(*  - A missing / NULL text column is the empty sequence <<>>: the code    *)
(*    tests these columns for truthiness, and '' is falsy like null.       *)
(*  - A NULL integer column (expires_at, opened_at) is NULL_TIME.          *)
(*  - Tables are sets (or, where row order matters, sequences) of rows.    *)
(*  - Date.now() is the variable now; one handler runs at one clock value. *)
(***************************************************************************)
EXTENDS Integers, Sequences, FiniteSets, TLC

VARIABLES
    now,                \* wall clock, ms
    rules,              \* table rules, in rowid (insertion) order
    quarantine,         \* table quarantine
    circuit_breakers,   \* table circuit_breakers
    confirmation_tokens,\* table confirmation_tokens
    lastEval,           \* the verdict the caller is holding: NoEval, or an evaluation
    minted,             \* every token ever minted, with the allows it has confirmed
    decisions,          \* per bucket key, when evaluatePolicy allowed under a rate limit
    rate_limit_buckets, \* table rate_limit_buckets
    bucketHistory,      \* per bucket key, when checkRateLimit allowed
    uncleaned_buckets,  \* rate_limit_buckets as it would be had no cleanup ever run
    promised,           \* per bucket key, the earliest resetAt a throttled check returned since the last allowed one
    audit_log,          \* table audit_log
    sqlite_sequence,    \* AUTOINCREMENT counter of audit_log.id
    tamper,             \* what was done to the database file behind the program
    config_mode,        \* config row 'mode'
    responseCallbacks,  \* pending forwarded requests, each with its timer
    effects,            \* audit commits and stream writes, in order
    received,           \* the requests read from the caller, in order
    answered,           \* ids the downstream process has answered
    exitCode,           \* the code the sentinel process exited with, NoExit while it runs
    anomaly_baselines,  \* table anomaly_baselines
    inserted,           \* per baseline, the argument sets whose fingerprint was stored, in order
    writers,            \* processes inside createAuditEntry on the shared database file
    attempts,           \* processes using a confirmation token on the shared database file
    bridge              \* the gateway bridge: its socket, pending map and the requests it was given

policyVars == <<now, rules, quarantine, circuit_breakers, confirmation_tokens, lastEval,
                minted, decisions>>

limiterVars == <<rate_limit_buckets, bucketHistory, uncleaned_buckets, promised>>

auditVars == <<audit_log, sqlite_sequence, tamper>>

proxyVars == <<config_mode, responseCallbacks, effects, received, answered>>

\* state outside the store and the proxy's request bookkeeping
baselineVars == <<anomaly_baselines, inserted>>

restVars == <<exitCode, baselineVars, writers, attempts, bridge>>

nonPolicyVars == <<auditVars, proxyVars, limiterVars, restVars>>

vars == <<policyVars, auditVars, proxyVars, limiterVars, restVars>>

-----------------------------------------------------------------------------
(* Bounds of the model *)

MaxRows == 2            \* rows in the store, all tables together
MaxTicks == 2           \* clock advances
MaxFailureCount == 3    \* failure_count of a circuit breaker row
MaxDecisions == 4       \* allows recorded for one rate-limited rule and context

NULL_TIME == -1
NULL_NUMBER == NULL_TIME

-----------------------------------------------------------------------------
(* Strings *)

s_health == <<"h","e","a","l","t","h">>
s_status == <<"s","t","a","t","u","s">>
s_star == <<"*">>

\* tool names seen in requests
t_health == <<"f","_","h","e","a","l","t","h">>
t_status == <<"m","s","t","a","t","u","s","2">>
t_exec == <<"e","x","e","c">>
Tools == {t_health, t_status, t_exec}

\* two hosts that differ only in case
h_lower == <<"h","1">>
h_upper == <<"H","1">>
Hosts == {h_lower, h_upper}

a_user == <<"u">>
a_bot == <<"b">>
Agents == {a_user, a_bot}

\* JSON.stringify(arguments)
args_empty == <<"{","}">>
args_rm == <<"{","\"","c","\"",":","\"","r","m","\"","}">>
Args == {args_empty}

NoToken == ""
TokenIds == {"T1"}

ValidModes == {"silent-allow", "alert", "silent-deny", "lockdown"}
Modes == ValidModes \cup {"bypass"}

Contexts ==
    [tool : Tools, host : Hosts, agent : Agents, arguments : Args,
     confirmationToken : {NoToken} \cup TokenIds]

-----------------------------------------------------------------------------
(* String helpers *)

Lower(c) ==
    CASE c = "H" -> "h"
      [] c = "E" -> "e"
      [] c = "X" -> "x"
      [] c = "U" -> "u"
      [] OTHER -> c

\* startsWith in place of includes
Includes_AtStartOnly(s, sub) ==
    Len(sub) <= Len(s) /\ SubSeq(s, 1, Len(sub)) = sub

\* String.prototype.includes
Includes(s, sub) ==
    \E i \in 0..(Len(s) - Len(sub)) : SubSeq(s, i + 1, i + Len(sub)) = sub

-----------------------------------------------------------------------------
(* Glob patterns: globToRegex + RegExp.test, flag i *)

GlobLit(ch) == [k |-> "lit", c |-> ch]
GlobStar == [k |-> "star", c |-> "*"]
GlobDoubleStar == [k |-> "dstar", c |-> "*"]
GlobAny == [k |-> "any", c |-> "?"]

\* The replace() chain of globToRegex, left to right: "**" becomes ".*", a
\* remaining "*" becomes "[^/]*", "?" becomes ".", every other character
\* (regex specials are escaped first) stands for itself.
RECURSIVE globToRegex(_)
globToRegex(pattern) ==
    IF pattern = <<>> THEN <<>>
    ELSE IF Len(pattern) >= 2 /\ pattern[1] = "*" /\ pattern[2] = "*"
         THEN <<GlobDoubleStar>> \o globToRegex(SubSeq(pattern, 3, Len(pattern)))
    ELSE IF pattern[1] = "*"
         THEN <<GlobStar>> \o globToRegex(Tail(pattern))
    ELSE IF pattern[1] = "?"
         THEN <<GlobAny>> \o globToRegex(Tail(pattern))
    ELSE <<GlobLit(pattern[1])>> \o globToRegex(Tail(pattern))

\* ^regex$ against value, case-insensitive
RECURSIVE RegexTest(_, _)
RegexTest(regex, value) ==
    IF regex = <<>> THEN value = <<>>
    ELSE LET t == Head(regex)
             rest == Tail(regex)
         IN  CASE t.k = "dstar" ->
                    \E n \in 0..Len(value) :
                        RegexTest(rest, SubSeq(value, n + 1, Len(value)))
               [] t.k = "star" ->
                    \E n \in 0..Len(value) :
                        /\ \A i \in 1..n : value[i] # "/"
                        /\ RegexTest(rest, SubSeq(value, n + 1, Len(value)))
               [] t.k = "any" ->
                    value # <<>> /\ RegexTest(rest, Tail(value))
               [] OTHER ->
                    /\ value # <<>>
                    /\ Lower(value[1]) = Lower(t.c)
                    /\ RegexTest(rest, Tail(value))

matchesPattern(value, pattern) == RegexTest(globToRegex(pattern), value)

\* new RegExp(argumentPattern, 'i').test(argsStr) for a pattern without regex
\* metacharacters: a case-insensitive substring search
LowerAll(s) == [i \in 1..Len(s) |-> Lower(s[i])]
ArgumentPatternTest(argumentPattern, argsStr) ==
    Includes(LowerAll(argsStr), LowerAll(argumentPattern))

-----------------------------------------------------------------------------
(* Rules *)

\* Date#getHours / Date#getDay of new Date() (zone offset 0; 1970-01-01 was a
\* Thursday)
HourOf(t) == (t \div 3600000) % 24
DayOf(t) == (4 + (t \div 86400000)) % 7

\* schedule_days_of_week: a set, {} when not given; schedule_start_hour and
\* schedule_end_hour: NULL_TIME when not given
withinSchedule(rule, t) ==
    /\ (rule.schedule_days_of_week # {} => DayOf(t) \in rule.schedule_days_of_week)
    /\ ((rule.schedule_start_hour # NULL_TIME \/ rule.schedule_end_hour # NULL_TIME) =>
          LET startHour == IF rule.schedule_start_hour # NULL_TIME
                           THEN rule.schedule_start_hour ELSE 0
              endHour == IF rule.schedule_end_hour # NULL_TIME
                         THEN rule.schedule_end_hour ELSE 23
          IN  ~(HourOf(t) < startHour \/ HourOf(t) > endHour))

ruleMatches(rule, context, t) ==
    /\ (rule.tool_pattern # <<>> => matchesPattern(context.tool, rule.tool_pattern))
    /\ (rule.host_pattern # <<>> => matchesPattern(context.host, rule.host_pattern))
    /\ (rule.agent_pattern # <<>> => matchesPattern(context.agent, rule.agent_pattern))
    /\ (rule.argument_pattern # <<>> =>
            ArgumentPatternTest(rule.argument_pattern, context.arguments))
    /\ withinSchedule(rule, t)

\* SELECT * FROM rules WHERE enabled = 1 ORDER BY priority ASC, created_at ASC
\* (rows equal in both keys come out in rowid order)
RuleBefore(rs, i, j) ==
    \/ rs[i].priority < rs[j].priority
    \/ rs[i].priority = rs[j].priority /\ rs[i].created_at < rs[j].created_at
    \/ rs[i].priority = rs[j].priority /\ rs[i].created_at = rs[j].created_at /\ i < j

RECURSIVE OrderRows(_, _)
OrderRows(rs, idx) ==
    IF idx = {} THEN <<>>
    ELSE LET first == CHOOSE i \in idx : \A j \in idx \ {i} : RuleBefore(rs, i, j)
         IN  <<rs[first]>> \o OrderRows(rs, idx \ {first})

\* the enabled rules in insertion order
EnabledRulesOrdered_Unsorted(rs) == SelectSeq(rs, LAMBDA r : r.enabled = 1)

EnabledRulesOrdered(rs) ==
    OrderRows(rs, {i \in 1..Len(rs) : rs[i].enabled = 1})

-----------------------------------------------------------------------------
(* Verdicts *)

\* A reason is a template literal: literal words and interpolated values
Lit(word) == [lit |-> TRUE, text |-> word, val |-> <<>>]
Val(v) == [lit |-> FALSE, text |-> "", val |-> v]

RiskFactor(f, sc) == [factor |-> f, score |-> sc]

NoRule == ""

Verdict(allowed, action, reason, ruleId, riskScore, riskFactors, requiresConfirmation) ==
    [allowed |-> allowed, action |-> action, reason |-> reason,
     matchedRuleId |-> ruleId, riskScore |-> riskScore,
     riskFactors |-> riskFactors, requiresConfirmation |-> requiresConfirmation]

RECURSIVE SumScores(_)
SumScores(riskFactors) ==
    IF riskFactors = <<>> THEN 0
    ELSE Head(riskFactors).score + SumScores(Tail(riskFactors))

Min(a, b) == IF a < b THEN a ELSE b

\* 0.6 * anomalyScore + 0.4 * average of the other factors, capped at 100.
\* Scores are drawn from multiples of 5 with an integral average, which keeps
\* the integer division exact.
calculateCompositeRisk(riskFactors, anomalyScore) ==
    IF Len(riskFactors) = 0 THEN anomalyScore
    ELSE LET otherFactorsAvg == SumScores(riskFactors) \div Len(riskFactors)
         IN  Min(100, (anomalyScore * 6 + otherFactorsAvg * 4) \div 10)

-----------------------------------------------------------------------------
(* Step 1: circuit breaker gate *)

COOLDOWN_MS == 120000

HasBreaker(cb, host) == \E r \in cb : r.host = host
BreakerOf(cb, host) == CHOOSE r \in cb : r.host = host

\* isCircuitOpen: [open |-> result, circuit_breakers |-> table afterwards]
isCircuitOpen(cb, host, t) ==
    IF ~HasBreaker(cb, host) THEN [open |-> FALSE, circuit_breakers |-> cb]
    ELSE LET row == BreakerOf(cb, host)
         IN  IF row.state = "open"
             THEN IF t - row.opened_at < COOLDOWN_MS
                  THEN [open |-> TRUE, circuit_breakers |-> cb]
                  ELSE [open |-> FALSE,
                        circuit_breakers |->
                            (cb \ {row}) \cup {[row EXCEPT !.state = "half-open"]}]
             ELSE [open |-> FALSE, circuit_breakers |-> cb]

-----------------------------------------------------------------------------
(* Step 2: quarantine gate *)

\* the purge with <= in place of <
PurgeExpiredQuarantine_Inclusive(q, t) ==
    {r \in q : ~(r.expires_at # NULL_TIME /\ r.expires_at <= t)}

\* no purge on read
PurgeExpiredQuarantine_Never(q, t) == q

\* DELETE FROM quarantine WHERE expires_at IS NOT NULL AND expires_at < now
PurgeExpiredQuarantine(q, t) ==
    {r \in q : ~(r.expires_at # NULL_TIME /\ r.expires_at < t)}

\* isQuarantined: [hit |-> result, quarantine |-> table afterwards]
isQuarantined(q, scope, target, t) ==
    LET kept == PurgeExpiredQuarantine(q, t)
    IN  [hit |-> \E r \in kept : r.scope = scope /\ r.target = target,
         quarantine |-> kept]

-----------------------------------------------------------------------------
(* Step 4: rule matching, first match wins *)

NoMatch(tokens) == [matched |-> FALSE, verdict |-> <<>>, confirmation_tokens |-> tokens]

\* the token left usable after it confirmed a request
MarkUsed_Never(tokens, token) == tokens

\* UPDATE confirmation_tokens SET used = 1 WHERE token = ?
MarkUsed(tokens, token) ==
    {IF r.token = token THEN [r EXCEPT !.used = 1] ELSE r : r \in tokens}

\* The body of the loop for a rule that matches. A row whose action is none of
\* the four known ones produces no verdict and the loop goes on.
RuleVerdict(rule, context, tokens, riskFactors, anomalyScore) ==
    LET compositeRisk == calculateCompositeRisk(riskFactors, anomalyScore)
        \* SELECT used FROM confirmation_tokens WHERE token = ? AND used = 0
        tokenRows == {r \in tokens : r.token = context.confirmationToken /\ r.used = 0}
    IN  IF rule.action = "ask" /\ context.confirmationToken # NoToken /\ tokenRows # {}
        THEN [matched |-> TRUE,
              verdict |-> Verdict(TRUE, "allow",
                  <<Lit("Confirmed"), Lit("via"), Lit("token"), Lit("(rule:"),
                    Val(rule.name), Lit(")")>>,
                  rule.id, compositeRisk, riskFactors, FALSE),
              confirmation_tokens |-> MarkUsed(tokens, context.confirmationToken)]
        ELSE IF rule.action = "allow"
        THEN [matched |-> TRUE,
              verdict |-> Verdict(TRUE, "allow",
                  <<Lit("Allowed"), Lit("by"), Lit("rule:"), Val(rule.name)>>,
                  rule.id, compositeRisk, riskFactors, FALSE),
              confirmation_tokens |-> tokens]
        ELSE IF rule.action = "deny"
        THEN [matched |-> TRUE,
              verdict |-> Verdict(FALSE, "deny",
                  <<Lit("Denied"), Lit("by"), Lit("rule:"), Val(rule.name)>>,
                  rule.id, compositeRisk, riskFactors, FALSE),
              confirmation_tokens |-> tokens]
        ELSE IF rule.action = "ask"
        THEN [matched |-> TRUE,
              verdict |-> Verdict(FALSE, "ask",
                  <<Lit("Confirmation"), Lit("required"), Lit("(rule:"),
                    Val(rule.name), Lit(")")>>,
                  rule.id, compositeRisk, riskFactors, TRUE),
              confirmation_tokens |-> tokens]
        ELSE IF rule.action = "log-only"
        THEN [matched |-> TRUE,
              verdict |-> Verdict(TRUE, "log-only",
                  <<Lit("Logged"), Lit("by"), Lit("rule:"), Val(rule.name)>>,
                  rule.id, compositeRisk, riskFactors, FALSE),
              confirmation_tokens |-> tokens]
        ELSE NoMatch(tokens)

RECURSIVE MatchRules(_, _, _, _, _, _)
MatchRules(ordered, context, t, tokens, riskFactors, anomalyScore) ==
    IF ordered = <<>> THEN NoMatch(tokens)
    ELSE IF ruleMatches(Head(ordered), context, t)
         THEN LET r == RuleVerdict(Head(ordered), context, tokens, riskFactors, anomalyScore)
              IN  IF r.matched THEN r
                  ELSE MatchRules(Tail(ordered), context, t, tokens, riskFactors, anomalyScore)
         ELSE MatchRules(Tail(ordered), context, t, tokens, riskFactors, anomalyScore)

-----------------------------------------------------------------------------
(* Step 7: mode default when no rule matched *)

\* alert mode allowing like silent-allow
ModeDefault_AlertAllows(mode, riskFactors, anomalyScore) ==
    LET compositeRisk == calculateCompositeRisk(riskFactors, anomalyScore)
    IN  IF mode \in {"silent-allow", "alert"}
        THEN Verdict(TRUE, "allow",
                 <<Lit("No"), Lit("matching"), Lit("rule,"), Lit("silent-allow"), Lit("mode")>>,
                 NoRule, compositeRisk, riskFactors, FALSE)
        ELSE Verdict(FALSE, "deny",
                 <<Lit("No"), Lit("matching"), Lit("rule,"), Lit("default"), Lit("deny")>>,
                 NoRule, compositeRisk, riskFactors, FALSE)

ModeDefault(mode, riskFactors, anomalyScore) ==
    LET compositeRisk == calculateCompositeRisk(riskFactors, anomalyScore)
    IN  IF mode = "silent-allow"
        THEN Verdict(TRUE, "allow",
                 <<Lit("No"), Lit("matching"), Lit("rule,"), Lit("silent-allow"), Lit("mode")>>,
                 NoRule, compositeRisk, riskFactors, FALSE)
        ELSE IF mode = "alert"
        THEN Verdict(FALSE, "ask",
                 <<Lit("No"), Lit("matching"), Lit("rule,"), Lit("confirmation"),
                   Lit("required"), Lit("in"), Lit("alert"), Lit("mode")>>,
                 NoRule, compositeRisk, riskFactors, TRUE)
        ELSE IF mode = "silent-deny"
        THEN Verdict(FALSE, "deny",
                 <<Lit("No"), Lit("matching"), Lit("rule,"), Lit("deny-by-default"),
                   Lit("in"), Lit("silent-deny"), Lit("mode")>>,
                 NoRule, compositeRisk, riskFactors, FALSE)
        ELSE Verdict(FALSE, "deny",
                 <<Lit("No"), Lit("matching"), Lit("rule,"), Lit("default"), Lit("deny")>>,
                 NoRule, compositeRisk, riskFactors, FALSE)

-----------------------------------------------------------------------------
(* evaluatePolicy: the verdict and the tables as the call leaves them *)

GateDeny(reason, riskFactors, factor) ==
    Verdict(FALSE, "deny", reason, NoRule, 100,
            Append(riskFactors, RiskFactor(factor, 100)), FALSE)

Outcome(v, cb, q, tokens) ==
    [verdict |-> v, circuit_breakers |-> cb, quarantine |-> q,
     confirmation_tokens |-> tokens]

\* Steps 1-3.  fired tells whether one of them produced the verdict.
SafetyGates(q, cb, tokens, context, mode, t, riskFactors) ==
    LET circuit == isCircuitOpen(cb, context.host, t)
        cb1 == circuit.circuit_breakers
        qh == isQuarantined(q, "host", context.host, t)
        qt == isQuarantined(qh.quarantine, "tool", context.tool, t)
        qa == isQuarantined(qt.quarantine, "agent", context.agent, t)
        isHealthCheck == Includes(context.tool, s_health) \/ Includes(context.tool, s_status)
        Fired(out) == [fired |-> TRUE, out |-> out]
    IN  IF circuit.open
        THEN Fired(Outcome(GateDeny(<<Lit("Host"), Val(context.host), Lit("circuit"),
                                Lit("breaker"), Lit("is"), Lit("open"),
                                Lit("(unavailable)")>>,
                              riskFactors, "circuit_breaker"),
                     cb1, q, tokens))
        ELSE IF qh.hit
        THEN Fired(Outcome(GateDeny(<<Lit("Host"), Val(context.host), Lit("is"),
                                Lit("quarantined")>>, riskFactors, "quarantine"),
                     cb1, qh.quarantine, tokens))
        ELSE IF qt.hit
        THEN Fired(Outcome(GateDeny(<<Lit("Tool"), Val(context.tool), Lit("is"),
                                Lit("quarantined")>>, riskFactors, "quarantine"),
                     cb1, qt.quarantine, tokens))
        ELSE IF qa.hit
        THEN Fired(Outcome(GateDeny(<<Lit("Agent"), Val(context.agent), Lit("is"),
                                Lit("quarantined")>>, riskFactors, "quarantine"),
                     cb1, qa.quarantine, tokens))
        ELSE IF mode = "lockdown"
        THEN IF ~isHealthCheck
             THEN Fired(Outcome(GateDeny(<<Lit("System"), Lit("in"), Lit("lockdown"),
                                     Lit("mode")>>, riskFactors, "lockdown_mode"),
                          cb1, qa.quarantine, tokens))
             ELSE Fired(Outcome(Verdict(TRUE, "allow",
                              <<Lit("Health"), Lit("check"), Lit("allowed"), Lit("in"),
                                Lit("lockdown"), Lit("mode")>>,
                              NoRule, 0, riskFactors, FALSE),
                          cb1, qa.quarantine, tokens))
        ELSE [fired |-> FALSE, out |-> Outcome(<<>>, cb1, qa.quarantine, tokens)]

\* a full anomaly score denies whatever the rules say
RulesThenDefault_AnomalyVeto(rs, q, cb, tokens, context, mode, t, anomalyScore, riskFactors) ==
    LET step4 == MatchRules(EnabledRulesOrdered(rs), context, t, tokens,
                            riskFactors, anomalyScore)
    IN  IF anomalyScore >= 100
        THEN Outcome(GateDeny(<<Lit("Anomalous"), Lit("request")>>, riskFactors,
                              "anomaly"), cb, q, tokens)
        ELSE IF step4.matched
        THEN Outcome(step4.verdict, cb, q, step4.confirmation_tokens)
        ELSE Outcome(ModeDefault(mode, riskFactors, anomalyScore), cb, q, tokens)

\* Steps 4 and 7, on the tables as steps 1-3 left them
RulesThenDefault(rs, q, cb, tokens, context, mode, t, anomalyScore, riskFactors) ==
    LET step4 == MatchRules(EnabledRulesOrdered(rs), context, t, tokens,
                            riskFactors, anomalyScore)
    IN  IF step4.matched
        THEN Outcome(step4.verdict, cb, q, step4.confirmation_tokens)
        ELSE Outcome(ModeDefault(mode, riskFactors, anomalyScore), cb, q, tokens)

\* a rule that matches decides before the gates are looked at
evaluatePolicy_RulesFirst(rs, q, cb, tokens, context, mode, t, anomalyScore, additionalRiskFactors) ==
    LET step4 == MatchRules(EnabledRulesOrdered(rs), context, t, tokens,
                            additionalRiskFactors, anomalyScore)
        gates == SafetyGates(q, cb, tokens, context, mode, t, additionalRiskFactors)
    IN  IF step4.matched
        THEN Outcome(step4.verdict, cb, q, step4.confirmation_tokens)
        ELSE IF gates.fired THEN gates.out
        ELSE Outcome(ModeDefault(mode, additionalRiskFactors, anomalyScore),
                     gates.out.circuit_breakers, gates.out.quarantine, tokens)

evaluatePolicy(rs, q, cb, tokens, context, mode, t, anomalyScore, additionalRiskFactors) ==
    LET riskFactors == additionalRiskFactors
        gates == SafetyGates(q, cb, tokens, context, mode, t, riskFactors)
    IN  IF gates.fired THEN gates.out
        ELSE RulesThenDefault(rs, gates.out.quarantine, gates.out.circuit_breakers,
                              tokens, context, mode, t, anomalyScore, riskFactors)

-----------------------------------------------------------------------------
(* What the operator can ask for *)

r_allow_all == <<"a","l","l">>
r_deny_exec == <<"n","o","x">>
r_ask == <<"a","s","k">>
r_log == <<"l","o","g">>
r_off == <<"o","f","f">>
r_hours == <<"9","t","o","5">>

RuleArgs(id, name, priority, action, enabled, tool, host, agent) ==
    [id |-> id, name |-> name, priority |-> priority, action |-> action,
     enabled |-> enabled, tool_pattern |-> tool, host_pattern |-> host,
     agent_pattern |-> agent, argument_pattern |-> <<>>,
     schedule_days_of_week |-> {}, schedule_start_hour |-> NULL_TIME,
     schedule_end_hour |-> NULL_TIME,
     rate_limit_max_operations |-> NULL_NUMBER,
     rate_limit_window_seconds |-> NULL_NUMBER,
     rate_limit_refill_rate |-> NULL_NUMBER]

\* sentinel_rule_create arguments the model draws from: every action, a
\* priority below every other one on an allow-everything rule, a disabled
\* rule, a rule limited to office hours, patterns with and without wildcards
RuleTemplates ==
    { RuleArgs("r1", r_allow_all, -1000, "allow", 1, s_star, s_star, s_star),
      RuleArgs("r2", r_deny_exec, 0, "deny", 1, <<"E","x","*">>, <<>>, <<>>),
      RuleArgs("r3", r_ask, 0, "ask", 1, <<>>, <<"h","?">>, <<>>),
      RuleArgs("r4", r_log, 1000, "log-only", 1, <<"*","*">>, <<>>, a_user),
      RuleArgs("r5", r_off, -2000, "allow", 0, <<>>, <<>>, <<>>),
      [RuleArgs("r6", r_hours, -3000, "allow", 1, <<>>, <<>>, <<>>)
          EXCEPT !.schedule_start_hour = 9, !.schedule_end_hour = 17] }

QuarantineScopes == {"host", "tool", "agent"}
TargetsOf(scope) ==
    IF scope = "host" THEN {h_lower}
    ELSE IF scope = "tool" THEN {t_exec}
    ELSE {a_bot}

\* expiresIn of the quarantine tools; 0 is "never"
ExpiresIn == {0, COOLDOWN_MS}

\* contexts an ask verdict was issued for
TokenContexts ==
    {c \in Contexts : c.confirmationToken = NoToken /\ c.tool = t_exec /\ c.agent = a_user}

-----------------------------------------------------------------------------
(* State *)

\* new SentinelGatewayBridge(): ws = null, connected = false, an empty
\* pendingRequests map; closing tells that a socket dropped by disconnect()
\* has its 'close' event still to come; requests are the sendRequest calls made
NewBridge ==
    [ws |-> "null", connected |-> FALSE, closing |-> FALSE, pendingRequests |-> {},
     requests |-> <<>>]

NoEval == [kind |-> "none"]

NoMode == ""             \* no config row 'mode'

NoTamper == [kind |-> "none", id |-> 0, field |-> "", seq |-> 0, last |-> FALSE]

\* the process is running: it has no exit code
NoExit == {}

Init ==
    /\ now = 0
    /\ rules = <<>>
    /\ quarantine = {}
    /\ circuit_breakers = {}
    /\ confirmation_tokens = {}
    /\ lastEval = NoEval
    /\ minted = {}
    /\ decisions = {}
    /\ rate_limit_buckets = {}
    /\ bucketHistory = {}
    /\ uncleaned_buckets = {}
    /\ promised = {}
    /\ audit_log = {}
    /\ sqlite_sequence = 0
    /\ tamper = NoTamper
    /\ config_mode = "silent-allow"
    /\ responseCallbacks = {}
    /\ effects = <<>>
    /\ received = <<>>
    /\ answered = {}
    /\ exitCode = NoExit
    /\ anomaly_baselines = {}
    /\ inserted = <<>>
    /\ writers = {}
    /\ attempts = {}
    /\ bridge = NewBridge

\* process.exit has not been called
Running == exitCode = NoExit

\* no verdict is waiting to be taken: handlers run one after the other
Idle == lastEval.kind = "none"

RowCount(rs, q, cb, tokens) ==
    Len(rs) + Cardinality(q) + Cardinality(cb) + Cardinality(tokens)

\* the clock moves between handlers, here in steps of the cooldown
Tick ==
    /\ Idle
    /\ now < MaxTicks * COOLDOWN_MS
    /\ now' = now + COOLDOWN_MS
    /\ UNCHANGED <<decisions, lastEval, minted, rules, quarantine, circuit_breakers, confirmation_tokens, nonPolicyVars>>

\* sentinel_rule_create (randomUUID gives each created rule a fresh id)
RuleCreate(args) ==
    /\ Idle
    /\ \A i \in 1..Len(rules) : rules[i].id # args.id
    /\ rules' = Append(rules, [id |-> args.id, name |-> args.name,
                   priority |-> args.priority, action |-> args.action,
                   enabled |-> args.enabled, tool_pattern |-> args.tool_pattern,
                   host_pattern |-> args.host_pattern,
                   agent_pattern |-> args.agent_pattern,
                   argument_pattern |-> args.argument_pattern,
                   schedule_days_of_week |-> args.schedule_days_of_week,
                   schedule_start_hour |-> args.schedule_start_hour,
                   schedule_end_hour |-> args.schedule_end_hour,
                   rate_limit_max_operations |-> args.rate_limit_max_operations,
                   rate_limit_window_seconds |-> args.rate_limit_window_seconds,
                   rate_limit_refill_rate |-> args.rate_limit_refill_rate,
                   created_at |-> now])
    /\ RowCount(rules', quarantine, circuit_breakers, confirmation_tokens) <= MaxRows
    /\ UNCHANGED <<decisions, lastEval, minted, now, quarantine, circuit_breakers, confirmation_tokens, nonPolicyVars>>

\* sentinel_rule_delete
RuleDelete(id) ==
    /\ Idle
    /\ \E i \in 1..Len(rules) : rules[i].id = id
    /\ rules' = SelectSeq(rules, LAMBDA r : r.id # id)
    /\ UNCHANGED <<decisions, lastEval, minted, now, quarantine, circuit_breakers, confirmation_tokens, nonPolicyVars>>

\* sentinel_quarantine_host / _tool / _agent: INSERT ... ON CONFLICT(scope,
\* target) DO UPDATE
Quarantine(scope, target, expiresIn) ==
    /\ Idle
    /\ LET expiresAt == IF expiresIn # 0 THEN now + expiresIn ELSE NULL_TIME
       IN  quarantine' =
               {r \in quarantine : ~(r.scope = scope /\ r.target = target)}
               \cup {[scope |-> scope, target |-> target, expires_at |-> expiresAt]}
    /\ RowCount(rules, quarantine', circuit_breakers, confirmation_tokens) <= MaxRows
    /\ UNCHANGED <<decisions, lastEval, minted, now, rules, circuit_breakers, confirmation_tokens, nonPolicyVars>>

liftQuarantine(scope, target) ==
    /\ Idle
    /\ \E r \in quarantine : r.scope = scope /\ r.target = target
    /\ quarantine' = {r \in quarantine : ~(r.scope = scope /\ r.target = target)}
    /\ UNCHANGED <<decisions, lastEval, minted, now, rules, circuit_breakers, confirmation_tokens, nonPolicyVars>>

-----------------------------------------------------------------------------
(* Circuit breaker writes.  A circuit_breakers row is [host, state,         *)
(* failure_count, opened_at]; the columns last_failure, last_success and    *)
(* half_open_at are written but never read by any decision and are left     *)
(* out.                                                                      *)

FAILURE_THRESHOLD == 2

\* the row recordSuccess leaves (insert, or update on conflict)
SuccessRow(host) ==
    [host |-> host, state |-> "closed", failure_count |-> 0, opened_at |-> NULL_TIME]

\* a failure that leaves opened_at as it was once the row has one
FailureRow_FirstOpening(cb, host, t) == [host |-> host, state |-> IF (IF HasBreaker(cb, host) THEN BreakerOf(cb, host).failure_count ELSE 0) + 1 >= FAILURE_THRESHOLD THEN "open" ELSE "closed", failure_count |-> (IF HasBreaker(cb, host) THEN BreakerOf(cb, host).failure_count ELSE 0) + 1, opened_at |-> IF HasBreaker(cb, host) /\ BreakerOf(cb, host).opened_at # NULL_TIME THEN BreakerOf(cb, host).opened_at ELSE IF (IF HasBreaker(cb, host) THEN BreakerOf(cb, host).failure_count ELSE 0) + 1 >= FAILURE_THRESHOLD THEN t ELSE NULL_TIME]

\* the row recordFailure leaves
FailureRow(cb, host, t) ==
    LET existingCount == IF HasBreaker(cb, host) THEN BreakerOf(cb, host).failure_count ELSE 0
        existingOpened == IF HasBreaker(cb, host) THEN BreakerOf(cb, host).opened_at
                          ELSE NULL_TIME
        newFailureCount == existingCount + 1
        newState == IF newFailureCount >= FAILURE_THRESHOLD THEN "open" ELSE "closed"
    IN  [host |-> host, state |-> newState, failure_count |-> newFailureCount,
         opened_at |-> IF newState = "open" THEN t ELSE existingOpened]

recordSuccess(host) ==
    /\ Idle
    /\ circuit_breakers' =
           {r \in circuit_breakers : r.host # host} \cup {SuccessRow(host)}
    /\ RowCount(rules, quarantine, circuit_breakers', confirmation_tokens) <= MaxRows
    /\ UNCHANGED <<decisions, lastEval, minted, now, rules, quarantine, confirmation_tokens, nonPolicyVars>>

recordFailure(host) ==
    /\ Idle
    /\ HasBreaker(circuit_breakers, host) =>
           BreakerOf(circuit_breakers, host).failure_count < MaxFailureCount
    /\ circuit_breakers' =
           {r \in circuit_breakers : r.host # host}
           \cup {FailureRow(circuit_breakers, host, now)}
    /\ RowCount(rules, quarantine, circuit_breakers', confirmation_tokens) <= MaxRows
    /\ UNCHANGED <<decisions, lastEval, minted, now, rules, quarantine, confirmation_tokens, nonPolicyVars>>

-----------------------------------------------------------------------------
(* Circuit breaker reads.  The clock counts from the start of the run, so a  *)
(* recorded opened_at is never the number 0 that "if (breaker.opened_at)"    *)
(* would take for an absent one: absent is NULL_TIME.                        *)

\* getState: [state |-> result, circuit_breakers |-> table afterwards]
getState(cb, host, t, cooldownMs) ==
    IF ~HasBreaker(cb, host) THEN [state |-> "closed", circuit_breakers |-> cb]
    ELSE LET breaker == BreakerOf(cb, host)
         IN  IF breaker.failure_count < FAILURE_THRESHOLD
             THEN [state |-> "closed", circuit_breakers |-> cb]
             ELSE IF breaker.opened_at # NULL_TIME /\ t - breaker.opened_at >= cooldownMs
             THEN [state |-> "half-open",
                   circuit_breakers |->
                       (cb \ {breaker}) \cup {[breaker EXCEPT !.state = "half-open"]}]
             ELSE [state |-> breaker.state, circuit_breakers |-> cb]

\* state !== 'open'
isHealthy(cb, host, t, cooldownMs) == getState(cb, host, t, cooldownMs).state # "open"

\* the remaining cooldown rounded down to whole seconds
retryAfterSeconds_RoundedDown(cb, host, t, cooldownMs) == IF ~HasBreaker(cb, host) THEN 0 ELSE IF BreakerOf(cb, host).failure_count < FAILURE_THRESHOLD THEN 0 ELSE IF BreakerOf(cb, host).opened_at = NULL_TIME THEN 0 ELSE IF cooldownMs - (t - BreakerOf(cb, host).opened_at) > 0 THEN (cooldownMs - (t - BreakerOf(cb, host).opened_at)) \div 1000 ELSE 0

\* remaining > 0 ? Math.ceil(remaining / 1000) : 0
retryAfterSeconds(cb, host, t, cooldownMs) ==
    IF ~HasBreaker(cb, host) THEN 0
    ELSE LET breaker == BreakerOf(cb, host)
             remaining == cooldownMs - (t - breaker.opened_at)
         IN  IF breaker.failure_count < FAILURE_THRESHOLD THEN 0
             ELSE IF breaker.opened_at = NULL_TIME THEN 0
             ELSE IF remaining > 0 THEN (remaining + 999) \div 1000 ELSE 0

\* a call of isHealthy (or getState): the transition to half-open is persisted
IsHealthy(host) ==
    /\ Idle
    /\ circuit_breakers' = getState(circuit_breakers, host, now, COOLDOWN_MS).circuit_breakers
    /\ circuit_breakers' # circuit_breakers
    /\ UNCHANGED <<decisions, lastEval, minted, now, rules, quarantine, confirmation_tokens, nonPolicyVars>>

\* clock steps that put reads just before, at and just after the cooldown
WaitSteps == {COOLDOWN_MS \div 2 - 1, COOLDOWN_MS \div 2 + 1}

MaxWait == 240004

Wait(ms) ==
    /\ Idle
    /\ now + ms <= MaxWait
    /\ now' = now + ms
    /\ UNCHANGED <<decisions, lastEval, minted, rules, quarantine, circuit_breakers, confirmation_tokens, nonPolicyVars>>

BreakerContexts == {c \in Contexts : c.confirmationToken = NoToken /\ c.tool = t_exec /\ c.agent = a_user}

-----------------------------------------------------------------------------
(* Confirmation tokens *)

DEFAULT_TTL_MS == 300000

\* the row generateConfirmationToken inserts
TokenRow(token, context, ttlMs, t) ==
    [token |-> token, tool |-> context.tool, host |-> context.host,
     agent |-> context.agent, expires_at |-> t + ttlMs, used |-> 0]

Minted(token) == [token |-> token, allows |-> 0]

\* generateConfirmationToken (randomUUID gives a token never seen before)
generateConfirmationToken(token, context, ttlMs) ==
    /\ Idle
    /\ \A m \in minted : m.token # token
    /\ confirmation_tokens' = confirmation_tokens \cup
           {TokenRow(token, context, ttlMs, now)}
    /\ minted' = minted \cup {Minted(token)}
    /\ RowCount(rules, quarantine, circuit_breakers, confirmation_tokens') <= MaxRows
    /\ UNCHANGED <<decisions, lastEval, now, rules, quarantine, circuit_breakers, nonPolicyVars>>

-----------------------------------------------------------------------------
(* A call of evaluatePolicy *)

\* the verdict of the token branch of step 4
\* rowToRule: the rate limit of a rule row, present when all three columns are
NoRateLimit == [maxOperations |-> NULL_NUMBER, windowSeconds |-> NULL_NUMBER,
                refillRate |-> NULL_NUMBER]
rateLimitOf(row) ==
    IF /\ row.rate_limit_max_operations # NULL_NUMBER
       /\ row.rate_limit_window_seconds # NULL_NUMBER
       /\ row.rate_limit_refill_rate # NULL_NUMBER
    THEN [maxOperations |-> row.rate_limit_max_operations,
          windowSeconds |-> row.rate_limit_window_seconds,
          refillRate |-> row.rate_limit_refill_rate]
    ELSE NoRateLimit

\* the bucket key of the specification: (rule_id, tool, host, agent)
SameBucket(b, ruleId, context) ==
    /\ b.rule_id = ruleId /\ b.tool = context.tool
    /\ b.host = context.host /\ b.agent = context.agent

\* one more allow at time t in the history kept for (ruleId, tool, host, agent)
Allowed(history, ruleId, context, rateLimit, t) ==
    IF \E h \in history : SameBucket(h, ruleId, context)
    THEN {IF SameBucket(h, ruleId, context)
          THEN [h EXCEPT !.allowedAt = Append(@, t)] ELSE h : h \in history}
    ELSE history \cup {[rule_id |-> ruleId, tool |-> context.tool,
                         host |-> context.host, agent |-> context.agent,
                         maxOperations |-> rateLimit.maxOperations,
                         refillRate |-> rateLimit.refillRate,
                         allowedAt |-> <<t>>]}

\* the verdicts evaluatePolicy returned allowed under a rule with a rate limit
Decided(decs, rs, ruleId, allowed, context, t) ==
    LET hits == {i \in 1..Len(rs) : rs[i].id = ruleId}
    IN  IF ~allowed \/ hits = {} THEN decs
        ELSE LET rateLimit == rateLimitOf(rs[CHOOSE i \in hits : TRUE])
             IN  IF rateLimit = NoRateLimit THEN decs
                 ELSE Allowed(decs, ruleId, context, rateLimit, t)

ConfirmedViaToken(verdict) ==
    /\ verdict.allowed
    /\ Len(verdict.reason) >= 3
    /\ SubSeq(verdict.reason, 1, 3) = <<Lit("Confirmed"), Lit("via"), Lit("token")>>

EvaluateScored(context, mode, anomalyScore, additionalRiskFactors) ==
    Idle /\
    LET out == evaluatePolicy(rules, quarantine, circuit_breakers, confirmation_tokens,
                              context, mode, now, anomalyScore, additionalRiskFactors)
    IN  /\ circuit_breakers' = out.circuit_breakers
        /\ quarantine' = out.quarantine
        /\ confirmation_tokens' = out.confirmation_tokens
        /\ lastEval' = [kind |-> "eval", context |-> context, mode |-> mode,
                        at |-> now,
                        anomalyScore |-> anomalyScore,
                        additionalRiskFactors |-> additionalRiskFactors,
                        circuit_breakers |-> circuit_breakers,
                        quarantine |-> quarantine,
                        confirmation_tokens |-> confirmation_tokens,
                        verdict |-> out.verdict]
        /\ minted' = IF ConfirmedViaToken(out.verdict)
                      THEN {IF m.token = context.confirmationToken
                            THEN [m EXCEPT !.allows = @ + 1] ELSE m : m \in minted}
                      ELSE minted
        /\ decisions' = Decided(decisions, rules, out.verdict.matchedRuleId,
                                out.verdict.allowed, context, now)
        /\ \A d \in decisions' : Len(d.allowedAt) <= MaxDecisions
        /\ UNCHANGED <<now, rules, nonPolicyVars>>

\* a call with the default anomalyScore = 0 and additionalRiskFactors = []
Evaluate(context, mode) == EvaluateScored(context, mode, 0, <<>>)

\* the caller takes the verdict
TakeVerdict ==
    /\ ~Idle
    /\ lastEval' = NoEval
    /\ UNCHANGED <<decisions, minted, now, rules, quarantine, circuit_breakers, confirmation_tokens, nonPolicyVars>>

NextPolicy ==
    \/ Tick
    \/ \E args \in RuleTemplates : RuleCreate(args)
    \/ \E id \in {a.id : a \in RuleTemplates} : RuleDelete(id)
    \/ \E scope \in QuarantineScopes : \E target \in TargetsOf(scope) :
          \E e \in ExpiresIn : Quarantine(scope, target, e)
    \/ \E scope \in QuarantineScopes : \E target \in TargetsOf(scope) :
          liftQuarantine(scope, target)
    \/ \E host \in Hosts : recordSuccess(host)
    \/ \E host \in Hosts : recordFailure(host)
    \/ \E token \in TokenIds : \E c \in TokenContexts :
          generateConfirmationToken(token, c, DEFAULT_TTL_MS)
    \/ \E c \in Contexts : \E mode \in Modes : Evaluate(c, mode)
    \/ TakeVerdict

SpecPolicy == Init /\ [][NextPolicy]_vars

\* the circuit breaker written and read between clock steps
NextBreaker ==
    \/ \E ms \in WaitSteps : Wait(ms)
    \/ \E host \in Hosts : recordSuccess(host)
    \/ \E host \in Hosts : recordFailure(host)
    \/ \E host \in Hosts : IsHealthy(host)
    \/ \E c \in BreakerContexts : Evaluate(c, "silent-allow")
    \/ TakeVerdict

SpecBreaker == Init /\ [][NextBreaker]_vars

-----------------------------------------------------------------------------
(* evaluatePolicy called with an anomaly score and risk factors from        *)
(* external analysis                                                        *)

AnomalyScores == {0, 50, 100}

AdditionalRiskFactors ==
    {<<>>, <<RiskFactor("external", 100)>>,
     <<RiskFactor("external", 20), RiskFactor("history", 100)>>}

ScoredContexts ==
    {c \in Contexts : c.tool \in {t_exec, t_health} /\ c.host = h_lower /\ c.agent = a_user}

NextScored ==
    \/ Tick
    \/ \E args \in RuleTemplates : RuleCreate(args)
    \/ \E scope \in QuarantineScopes : \E target \in TargetsOf(scope) :
          \E e \in ExpiresIn : Quarantine(scope, target, e)
    \/ recordFailure(h_lower)
    \/ \E token \in TokenIds : \E c \in TokenContexts :
          generateConfirmationToken(token, c, DEFAULT_TTL_MS)
    \/ \E c \in ScoredContexts : \E mode \in Modes :
          \E anomalyScore \in AnomalyScores : \E factors \in AdditionalRiskFactors :
             EvaluateScored(c, mode, anomalyScore, factors)
    \/ TakeVerdict

SpecScored == Init /\ [][NextScored]_vars

-----------------------------------------------------------------------------
(* Confirmation tokens on their own: minting with either ttl, presenting    *)
(* them to evaluatePolicy and to validateConfirmationToken, pruning.        *)

AllTokenIds == {"T1", "T2"}

\* the default ttl and one of a single clock step
TokenTtls == {DEFAULT_TTL_MS, COOLDOWN_MS}

\* requests that present a token or none
TokenRetries ==
    [tool : {t_exec, t_health}, host : Hosts, agent : {a_user}, arguments : Args,
     confirmationToken : {NoToken} \cup AllTokenIds]

TokenModes == {"alert", "silent-allow", "lockdown"}

\* the context comparison that looks at the tool only
SameContext_ToolOnly(row, context) == row.tool = context.tool

\* row.tool !== context.tool || row.host !== context.host || row.agent !== context.agent
SameContext(row, context) ==
    row.tool = context.tool /\ row.host = context.host /\ row.agent = context.agent

\* DELETE FROM confirmation_tokens WHERE expires_at < ?
PruneExpiredTokens(tokens, t) == {r \in tokens : ~(r.expires_at < t)}

\* validateConfirmationToken: its answer and the table as it leaves it
validateConfirmationToken(tokens, token, context, t) ==
    LET kept == PruneExpiredTokens(tokens, t)
        rows == {r \in kept : r.token = token}
        row == CHOOSE r \in rows : TRUE
        No == [ok |-> FALSE, confirmation_tokens |-> kept]
    IN  IF rows = {} THEN No
        ELSE IF row.used = 1 THEN No
        ELSE IF row.expires_at < t THEN No
        ELSE IF ~SameContext(row, context) THEN No
        ELSE [ok |-> TRUE, confirmation_tokens |-> MarkUsed(kept, token)]

ValidateToken(token, context) ==
    Idle /\
    LET out == validateConfirmationToken(confirmation_tokens, token, context, now)
    IN  /\ confirmation_tokens' = out.confirmation_tokens
        /\ lastEval' = [kind |-> "validate", token |-> token, context |-> context,
                        at |-> now, confirmation_tokens |-> confirmation_tokens,
                        ok |-> out.ok]
        /\ UNCHANGED <<decisions, minted, now, rules, quarantine, circuit_breakers, nonPolicyVars>>

cleanupExpiredTokens ==
    /\ Idle
    /\ confirmation_tokens' = PruneExpiredTokens(confirmation_tokens, now)
    /\ confirmation_tokens' # confirmation_tokens
    /\ UNCHANGED <<decisions, lastEval, minted, now, rules, quarantine, circuit_breakers, nonPolicyVars>>

NextTokens ==
    \/ Tick
    \/ \E args \in {a \in RuleTemplates : a.name \in {r_ask, r_deny_exec}} : RuleCreate(args)
    \/ \E id \in {a.id : a \in RuleTemplates} : RuleDelete(id)
    \/ \E token \in AllTokenIds : \E c \in TokenContexts : \E ttlMs \in TokenTtls :
          generateConfirmationToken(token, c, ttlMs)
    \/ \E c \in TokenRetries : \E mode \in TokenModes : Evaluate(c, mode)
    \/ \E token \in AllTokenIds : \E c \in TokenRetries : ValidateToken(token, c)
    \/ cleanupExpiredTokens
    \/ TakeVerdict

SpecTokens == Init /\ [][NextTokens]_vars

-----------------------------------------------------------------------------
(* Two processes on one database file use confirmation tokens.  Each SQL     *)
(* statement is atomic on the file; neither validateConfirmationToken nor    *)
(* the token branch of evaluatePolicy wraps its statements in a transaction, *)
(* so the statements of another process may run between them.  An attempt is *)
(* [name, kind, pc, token, context, at, ok].                                 *)

Users == {"p1", "p2"}

Using(p) == \E a \in attempts : a.name = p /\ a.pc \in {"select", "update"}

AttemptOf(p) == CHOOSE a \in attempts : a.name = p

Attempt(p, kind, pc, token, context, at, ok) ==
    [name |-> p, kind |-> kind, pc |-> pc, token |-> token, context |-> context,
     at |-> at, ok |-> ok]

attemptVars == <<decisions, lastEval, minted, now, rules, quarantine,
                 circuit_breakers, auditVars, proxyVars, limiterVars, exitCode,
                 baselineVars, writers, bridge>>

\* validateConfirmationToken, first statement:
\* const now = Date.now(); DELETE FROM confirmation_tokens WHERE expires_at < ?
DeleteExpired(p, token, context) ==
    /\ ~Using(p)
    /\ confirmation_tokens' = PruneExpiredTokens(confirmation_tokens, now)
    /\ attempts' = {a \in attempts : a.name # p} \cup
           {Attempt(p, "validate", "select", token, context, now, FALSE)}
    /\ UNCHANGED attemptVars

\* evaluatePolicy with context.confirmationToken set gets as far as the token
\* check: no gate fires and the first rule that matches is an ask rule
ReachesTokenCheck(context, mode) ==
    LET out == evaluatePolicy(rules, quarantine, circuit_breakers, confirmation_tokens,
                              [context EXCEPT !.confirmationToken = NoToken],
                              mode, now, 0, <<>>)
    IN  out.verdict.action = "ask" /\ out.verdict.matchedRuleId # NoRule

\* evaluatePolicy up to "if (rule.action === 'ask' && context.confirmationToken)"
MatchAskRule(p, context, mode) ==
    /\ ~Using(p)
    /\ context.confirmationToken # NoToken
    /\ ReachesTokenCheck(context, mode)
    /\ attempts' = {a \in attempts : a.name # p} \cup
           {Attempt(p, "evaluate", "select", context.confirmationToken, context,
                    now, FALSE)}
    /\ UNCHANGED <<confirmation_tokens, attemptVars>>

\* the SELECT of either path and the checks made on the row it returns
TokenUsable(a, tokens) ==
    LET rows == {r \in tokens : r.token = a.token}
        row == CHOOSE r \in rows : TRUE
    IN  IF a.kind = "evaluate"
        THEN \E r \in rows : r.used = 0
        ELSE /\ rows # {}
             /\ row.used # 1
             /\ ~(row.expires_at < a.at)
             /\ SameContext(row, a.context)

SelectToken(p) ==
    /\ \E a \in attempts : a.name = p /\ a.pc = "select"
    /\ attempts' = {a \in attempts : a.name # p} \cup
           {[AttemptOf(p) EXCEPT
               !.pc = IF TokenUsable(AttemptOf(p), confirmation_tokens)
                      THEN "update" ELSE "done"]}
    /\ UNCHANGED <<confirmation_tokens, attemptVars>>

\* UPDATE confirmation_tokens SET used = 1 WHERE token = ?, then return true
\* (validateConfirmationToken) or the allow verdict (evaluatePolicy)
UpdateUsed(p) ==
    /\ \E a \in attempts : a.name = p /\ a.pc = "update"
    /\ confirmation_tokens' = MarkUsed(confirmation_tokens, AttemptOf(p).token)
    /\ attempts' = {a \in attempts : a.name # p} \cup
           {[AttemptOf(p) EXCEPT !.pc = "done", !.ok = TRUE]}
    /\ UNCHANGED attemptVars

Quiet == \A a \in attempts : a.pc = "done"

\* the token both processes hold, and the requests that present it
AttemptTokens == {"T1"}

AttemptRetries ==
    {[c EXCEPT !.confirmationToken = token] :
        c \in TokenContexts, token \in AttemptTokens}

NextAttempts ==
    \/ Quiet /\ Tick
    \/ Quiet /\ RuleCreate(CHOOSE a \in RuleTemplates : a.name = r_ask)
    \/ \E token \in AttemptTokens : \E c \in TokenContexts :
          Quiet /\ generateConfirmationToken(token, c, DEFAULT_TTL_MS)
    \/ \E p \in Users : \E token \in AttemptTokens : \E c \in TokenContexts :
          DeleteExpired(p, token, c)
    \/ \E p \in Users : \E c \in AttemptRetries : MatchAskRule(p, c, "alert")
    \/ \E p \in Users : SelectToken(p)
    \/ \E p \in Users : UpdateUsed(p)

SpecAttempts == Init /\ [][NextAttempts]_vars

-----------------------------------------------------------------------------
(* The rate limiter.  Bucket tokens are fractional (column tokens REAL):     *)
(* they are held in millionths of a token, and refill rates in thousandths   *)
(* of a token per second, so that milliseconds times rate is exact.          *)

TokenUnit == 1000000        \* one token
RateUnit == 1000            \* one token per second

MaxLimiterMs == 2000        \* the clock of the limiter runs this far
MaxChecks == 7              \* allows recorded for one bucket

\* the least integer not below a / b, for a >= 0 and b > 0
Ceil(a, b) == (a + b - 1) \div b

\* Math.floor(a / b)
Floor(a, b) == a \div b

Bucket(ruleId, context, tokens, t) ==
    [rule_id |-> ruleId, tool |-> context.tool, host |-> context.host,
     agent |-> context.agent, tokens |-> tokens, last_refill |-> t, created_at |-> t]

RateLimitResult(allowed, remainingTokens, resetAt) ==
    [allowed |-> allowed, remainingTokens |-> remainingTokens, resetAt |-> resetAt]

\* a check that takes nothing out of the bucket
Consume_Nothing(currentTokens) == currentTokens

\* "Consume 1 token"
Consume(currentTokens) == currentTokens - TokenUnit

\* a throttled check that stores last_refill = now beside the unchanged tokens
checkRateLimit_ThrottleRestartsRefill(buckets, ruleId, context, rateLimit, t) ==
    LET capacity == rateLimit.maxOperations * TokenUnit
        \* get or create the bucket, created full
        found == {b \in buckets : SameBucket(b, ruleId, context)}
        created == IF found = {}
                   THEN buckets \cup {Bucket(ruleId, context, capacity, t)}
                   ELSE buckets
        bucket == CHOOSE b \in created : SameBucket(b, ruleId, context)
        \* elapsed seconds times refill rate
        refillTokens == (t - bucket.last_refill) * rateLimit.refillRate
        currentTokens == Min(bucket.tokens + refillTokens, capacity)
        newTokens == Consume(currentTokens)
        tokensNeeded == TokenUnit - currentTokens
    IN  IF currentTokens >= TokenUnit
        THEN [result |-> RateLimitResult(TRUE, Floor(newTokens, TokenUnit),
                             t + Ceil(capacity - newTokens,
                                      rateLimit.refillRate * RateUnit) * 1000),
              rate_limit_buckets |->
                  {IF SameBucket(b, ruleId, context)
                   THEN [b EXCEPT !.tokens = newTokens, !.last_refill = t]
                   ELSE b : b \in created}]
        ELSE [result |-> RateLimitResult(FALSE, 0,
                             t + Ceil(tokensNeeded,
                                      rateLimit.refillRate * RateUnit) * 1000),
              rate_limit_buckets |->
                  {IF SameBucket(b, ruleId, context)
                   THEN [b EXCEPT !.last_refill = t]
                   ELSE b : b \in created}]

checkRateLimit(buckets, ruleId, context, rateLimit, t) ==
    LET capacity == rateLimit.maxOperations * TokenUnit
        \* get or create the bucket, created full
        found == {b \in buckets : SameBucket(b, ruleId, context)}
        created == IF found = {}
                   THEN buckets \cup {Bucket(ruleId, context, capacity, t)}
                   ELSE buckets
        bucket == CHOOSE b \in created : SameBucket(b, ruleId, context)
        \* elapsed seconds times refill rate
        refillTokens == (t - bucket.last_refill) * rateLimit.refillRate
        currentTokens == Min(bucket.tokens + refillTokens, capacity)
        newTokens == Consume(currentTokens)
        tokensNeeded == TokenUnit - currentTokens
    IN  IF currentTokens >= TokenUnit
        THEN [result |-> RateLimitResult(TRUE, Floor(newTokens, TokenUnit),
                             t + Ceil(capacity - newTokens,
                                      rateLimit.refillRate * RateUnit) * 1000),
              rate_limit_buckets |->
                  {IF SameBucket(b, ruleId, context)
                   THEN [b EXCEPT !.tokens = newTokens, !.last_refill = t]
                   ELSE b : b \in created}]
        ELSE [result |-> RateLimitResult(FALSE, 0,
                             t + Ceil(tokensNeeded,
                                      rateLimit.refillRate * RateUnit) * 1000),
              rate_limit_buckets |-> created]

\* rules with a rate limit, one for each agent: 3 tokens refilled at 1 per
\* second, and 1 token refilled at one half per second
r_limited == <<"l","i","m","3">>
r_slow == <<"l","i","m","1">>

LimitedRuleTemplates ==
    { [RuleArgs("r7", r_limited, 0, "allow", 1, <<>>, <<>>, a_user)
          EXCEPT !.rate_limit_max_operations = 3,
                 !.rate_limit_window_seconds = 60,
                 !.rate_limit_refill_rate = RateUnit],
      [RuleArgs("r8", r_slow, 10, "log-only", 1, <<>>, <<>>, a_bot)
          EXCEPT !.rate_limit_max_operations = 1,
                 !.rate_limit_window_seconds = 60,
                 !.rate_limit_refill_rate = RateUnit \div 2] }

LimiterContexts ==
    {c \in Contexts : c.confirmationToken = NoToken /\ c.tool = t_exec /\ c.host = h_lower}

\* the clock moves by a quarter second or by a second
ElapseSteps == {250, 1000}

Elapse(ms) ==
    /\ Idle
    /\ now + ms <= MaxLimiterMs
    /\ now' = now + ms
    /\ UNCHANGED <<decisions, lastEval, minted, rules, quarantine, circuit_breakers,
                   confirmation_tokens, nonPolicyVars>>

\* the earliest resetAt handed out for a bucket by the throttled checks made
\* since the last allowed check on it
Promised(promises, ruleId, context, result) ==
    LET others == {p \in promises : ~SameBucket(p, ruleId, context)}
        mine == {p.resetAt : p \in promises \ others} \cup {result.resetAt}
    IN  IF result.allowed THEN others
        ELSE others \cup {[rule_id |-> ruleId, tool |-> context.tool,
                            host |-> context.host, agent |-> context.agent,
                            resetAt |-> CHOOSE m \in mine : \A o \in mine : m <= o]}

\* a call of checkRateLimit
CheckRateLimit(ruleId, context, rateLimit) ==
    /\ Idle
    /\ \E out \in {checkRateLimit(rate_limit_buckets, ruleId, context, rateLimit, now)} :
       \E kept \in {checkRateLimit(uncleaned_buckets, ruleId, context, rateLimit, now)} :
          /\ rate_limit_buckets' = out.rate_limit_buckets
          /\ uncleaned_buckets' = kept.rate_limit_buckets
          /\ bucketHistory' = IF out.result.allowed
                              THEN Allowed(bucketHistory, ruleId, context, rateLimit, now)
                              ELSE bucketHistory
          /\ promised' = Promised(promised, ruleId, context, out.result)
          /\ lastEval' = [kind |-> "limit", rule_id |-> ruleId, context |-> context,
                          at |-> now, rateLimit |-> rateLimit, result |-> out.result,
                          uncleaned |-> kept.result,
                          promisedAt |-> {p.resetAt : p \in
                              {q \in promised : SameBucket(q, ruleId, context)}}]
    /\ \A h \in bucketHistory' : Len(h.allowedAt) <= MaxChecks
    /\ UNCHANGED <<decisions, minted, now, rules, quarantine, circuit_breakers,
                   confirmation_tokens, auditVars, proxyVars, restVars>>

\* checkRateLimit called for a rule that matches the request, with the rule's
\* rate limit
NextRateLimit ==
    \/ \E ms \in ElapseSteps : Elapse(ms)
    \/ \E args \in LimitedRuleTemplates : \E c \in LimiterContexts :
          /\ ruleMatches(args, c, now)
          /\ CheckRateLimit(args.id, c, rateLimitOf(args))
    \/ TakeVerdict

SpecRateLimit == Init /\ [][NextRateLimit]_vars

\* rate limits as sentinel_rule_create accepts them (maxOperations is any
\* number): 3 tokens refilled at 1 per second, and no token at all
r_none == <<"l","i","m","0">>

ResetRuleTemplates ==
    { [RuleArgs("r7", r_limited, 0, "allow", 1, <<>>, <<>>, a_user)
          EXCEPT !.rate_limit_max_operations = 3,
                 !.rate_limit_window_seconds = 60,
                 !.rate_limit_refill_rate = RateUnit],
      [RuleArgs("r11", r_none, 0, "allow", 1, <<>>, <<>>, a_bot)
          EXCEPT !.rate_limit_max_operations = 0,
                 !.rate_limit_window_seconds = 60,
                 !.rate_limit_refill_rate = RateUnit] }

NextResets ==
    \/ \E ms \in ElapseSteps : Elapse(ms)
    \/ \E args \in ResetRuleTemplates : \E c \in LimiterContexts :
          /\ ruleMatches(args, c, now)
          /\ CheckRateLimit(args.id, c, rateLimitOf(args))
    \/ TakeVerdict

SpecResets == Init /\ [][NextResets]_vars

\* const cutoffTime = Date.now() - 24 * 60 * 60 * 1000
DAY_MS == 86400000

MaxCleanupDays == 1             \* the clock of the cleanup runs this far, and a second
MaxCleanupChecks == 3           \* allows recorded for one long-lived bucket

\* DELETE FROM rate_limit_buckets WHERE created_at < @cutoff
cleanupOldBuckets(buckets, t) == {b \in buckets : ~(b.created_at < t - DAY_MS)}

CleanupOldBuckets ==
    /\ Idle
    /\ rate_limit_buckets' = cleanupOldBuckets(rate_limit_buckets, now)
    /\ UNCHANGED <<bucketHistory, uncleaned_buckets, promised, policyVars, auditVars,
                   proxyVars, restVars>>

\* rules whose buckets refill slowly, one for each agent: 1 token and 2
\* tokens, refilled at one and at two thousandths of a token per second
r_rare == <<"l","i","m","r">>
r_rare2 == <<"l","i","m","s">>

SlowRuleTemplates ==
    { [RuleArgs("r9", r_rare, 0, "allow", 1, <<>>, <<>>, a_user)
          EXCEPT !.rate_limit_max_operations = 1,
                 !.rate_limit_window_seconds = 1000,
                 !.rate_limit_refill_rate = 1],
      [RuleArgs("r10", r_rare2, 0, "allow", 1, <<>>, <<>>, a_bot)
          EXCEPT !.rate_limit_max_operations = 2,
                 !.rate_limit_window_seconds = 1000,
                 !.rate_limit_refill_rate = 2] }

\* the clock moves by a little more than half a day
AgeSteps == {DAY_MS \div 2 + 500}

Age(ms) ==
    /\ Idle
    /\ now + ms <= MaxCleanupDays * DAY_MS + 1000
    /\ now' = now + ms
    /\ UNCHANGED <<decisions, lastEval, minted, rules, quarantine, circuit_breakers,
                   confirmation_tokens, nonPolicyVars>>

\* checks on long-lived buckets, with the periodic cleanup
NextBucketCleanup ==
    \/ \E ms \in AgeSteps : Age(ms)
    \/ \E args \in SlowRuleTemplates : \E c \in LimiterContexts :
          /\ ruleMatches(args, c, now)
          /\ CheckRateLimit(args.id, c, rateLimitOf(args))
          /\ \A h \in bucketHistory' : Len(h.allowedAt) <= MaxCleanupChecks
    \/ CleanupOldBuckets
    \/ TakeVerdict

SpecBucketCleanup == Init /\ [][NextBucketCleanup]_vars

\* evaluatePolicy over rules that carry a rate limit
NextLimitedRules ==
    \/ Elapse(1000)
    \/ \E args \in LimitedRuleTemplates : now = 0 /\ RuleCreate(args)
    \/ \E id \in {a.id : a \in LimitedRuleTemplates} : RuleDelete(id)
    \/ \E c \in LimiterContexts : Evaluate(c, "silent-allow")
    \/ TakeVerdict

SpecLimitedRules == Init /\ [][NextLimitedRules]_vars

-----------------------------------------------------------------------------
(* Hash-chained audit log.  A row of audit_log is                            *)
(*   [id, sequence_number, timestamp, tool, host, agent, verdict, action,    *)
(*    matched_rule_id, risk_score, mode, hash, previous_hash,                *)
(*    response_status, error_message].                                       *)
(* The columns arguments and risk_factors (serialized copies of the call's   *)
(* inputs) are left out; neither is hashed or read back.                     *)
(* SHA-256 is taken to be collision free: a digest is its input behind a     *)
(* marker.  The input is the string the code builds, separators included.    *)

MaxAuditEntries == 3    \* audit entries created

GENESIS_HASH == <<"G","E","N","E","S","I","S">>

v_allowed == <<"a","l","l","o","w","e","d">>
v_denied == <<"d","e","n","i","e","d">>
v_asked == <<"a","s","k","e","d">>
VerdictStrings == {v_allowed, v_denied, v_asked}

NoStatus == ""          \* response_status IS NULL
NoMessage == <<>>       \* error_message IS NULL / update field absent

Digits == <<"0","1","2","3","4","5","6","7","8","9">>

\* `${n}` for a non-negative integer
RECURSIVE ToDecimal(_)
ToDecimal(n) ==
    IF n < 10 THEN <<Digits[n + 1]>>
    ELSE ToDecimal(n \div 10) \o <<Digits[(n % 10) + 1]>>

\* createHash('sha256').update(data).digest('hex')
SHA256(data) == <<"#">> \o data

computeHash(sequenceNumber, timestamp, tool, host, agent, verdict, previousHash) ==
    LET bar == <<"|">>
        data == ToDecimal(sequenceNumber) \o bar \o ToDecimal(timestamp) \o bar
                \o tool \o bar \o host \o bar \o agent \o bar \o verdict \o bar
                \o previousHash
    IN  SHA256(data)

\* result.seq ?? 1 in place of result.seq ?? 0
getLastSequenceNumber_FromOne(log) ==
    IF log = {} THEN 1
    ELSE CHOOSE m \in {r.sequence_number : r \in log} :
             \A r \in log : r.sequence_number <= m

\* SELECT MAX(sequence_number); 0 on an empty table
getLastSequenceNumber(log) ==
    IF log = {} THEN 0
    ELSE CHOOSE m \in {r.sequence_number : r \in log} :
             \A r \in log : r.sequence_number <= m

\* ORDER BY sequence_number ASC in place of DESC
getLastHash_Ascending(log) ==
    IF log = {} THEN GENESIS_HASH
    ELSE (CHOOSE r \in log : \A o \in log : o.sequence_number >= r.sequence_number).hash

\* SELECT hash ... ORDER BY sequence_number DESC LIMIT 1; GENESIS on an empty table
getLastHash(log) ==
    IF log = {} THEN GENESIS_HASH
    ELSE (CHOOSE r \in log : \A o \in log : o.sequence_number <= r.sequence_number).hash

\* redactAndSerialize: arguments are held as their JSON text, and the
\* argument sets drawn have no sensitive field to redact
redactAndSerialize(arguments) == arguments

\* JSON.stringify(verdict.riskFactors)
Stringify(value) == [json |-> value]

\* the verdict string taken from allowed alone
AuditRow_AllowedOnly(lastId, sequenceNumber, previousHash, context, verdict, mode, t) ==
    LET timestamp == t
        verdictStr == IF verdict.allowed THEN v_allowed ELSE v_denied
        hash == computeHash(sequenceNumber, timestamp, context.tool, context.host,
                            context.agent, verdictStr, previousHash)
    IN  [id |-> lastId + 1, sequence_number |-> sequenceNumber,
         timestamp |-> timestamp, tool |-> context.tool, host |-> context.host,
         agent |-> context.agent,
         arguments |-> redactAndSerialize(context.arguments),
         verdict |-> verdictStr, action |-> verdict.action,
         matched_rule_id |-> verdict.matchedRuleId, risk_score |-> verdict.riskScore,
         risk_factors |-> Stringify(verdict.riskFactors),
         mode |-> mode, hash |-> hash, previous_hash |-> previousHash,
         response_status |-> NoStatus, error_message |-> NoMessage]

\* the row createAuditEntry inserts, given what its two reads returned
AuditRow(lastId, sequenceNumber, previousHash, context, verdict, mode, t) ==
    LET timestamp == t
        verdictStr == IF verdict.requiresConfirmation THEN v_asked
                      ELSE IF verdict.allowed THEN v_allowed ELSE v_denied
        hash == computeHash(sequenceNumber, timestamp, context.tool, context.host,
                            context.agent, verdictStr, previousHash)
    IN  [id |-> lastId + 1, sequence_number |-> sequenceNumber,
         timestamp |-> timestamp, tool |-> context.tool, host |-> context.host,
         agent |-> context.agent,
         arguments |-> redactAndSerialize(context.arguments),
         verdict |-> verdictStr, action |-> verdict.action,
         matched_rule_id |-> verdict.matchedRuleId, risk_score |-> verdict.riskScore,
         risk_factors |-> Stringify(verdict.riskFactors),
         mode |-> mode, hash |-> hash, previous_hash |-> previousHash,
         response_status |-> NoStatus, error_message |-> NoMessage]

\* createAuditEntry run without interruption on the table log
NewAuditRow(log, lastId, context, verdict, mode, t) ==
    AuditRow(lastId, getLastSequenceNumber(log) + 1, getLastHash(log), context,
             verdict, mode, t)

\* COALESCE(?, column)
Coalesce(given, column, null) == IF given # null THEN given ELSE column

\* the UPDATE without its WHERE clause
UpdatedLog_EveryRow(log, id, update) ==
    {[r EXCEPT !.response_status =
                   Coalesce(update.responseStatus, r.response_status, NoStatus),
               !.error_message =
                   Coalesce(update.errorMessage, r.error_message, NoMessage)]
        : r \in log}

\* updateAuditEntry's UPDATE ... WHERE id = ?
UpdatedLog(log, id, update) ==
    {IF r.id = id
     THEN [r EXCEPT !.response_status =
                        Coalesce(update.responseStatus, r.response_status, NoStatus),
                    !.error_message =
                        Coalesce(update.errorMessage, r.error_message, NoMessage)]
     ELSE r : r \in log}

\* SELECT * FROM audit_log ORDER BY sequence_number ASC
RECURSIVE EntriesBySequence(_)
EntriesBySequence(log) ==
    IF log = {} THEN <<>>
    ELSE LET first == CHOOSE r \in log :
                          \A o \in log : r.sequence_number <= o.sequence_number
         IN  <<first>> \o EntriesBySequence(log \ {first})

Broken(sequenceNumber, expectedHash, actualHash) ==
    [sequenceNumber |-> sequenceNumber, expectedHash |-> expectedHash,
     actualHash |-> actualHash]

\* the loop body with the recomputation left out
BrokenAt_LinkOnly(entries, i) ==
    LET entry == entries[i]
        expectedPreviousHash == IF i = 1 THEN GENESIS_HASH ELSE entries[i - 1].hash
    IN  IF entry.previous_hash # expectedPreviousHash
        THEN <<Broken(entry.sequence_number, expectedPreviousHash, entry.previous_hash)>>
        ELSE <<>>

\* the loop body that also compares the action column with the verdict column
BrokenAt_ActionChecked(entries, i) == (IF entries[i].previous_hash # (IF i = 1 THEN GENESIS_HASH ELSE entries[i - 1].hash) THEN <<Broken(entries[i].sequence_number, IF i = 1 THEN GENESIS_HASH ELSE entries[i - 1].hash, entries[i].previous_hash)>> ELSE <<>>) \o (IF computeHash(entries[i].sequence_number, entries[i].timestamp, entries[i].tool, entries[i].host, entries[i].agent, entries[i].verdict, entries[i].previous_hash) # entries[i].hash \/ (entries[i].verdict = v_allowed) # (entries[i].action \in {"allow", "log-only"}) THEN <<Broken(entries[i].sequence_number, entries[i].hash, entries[i].hash)>> ELSE <<>>)

\* one pass of verifyAuditChain's loop: what it pushes for entries[i]
BrokenAt(entries, i) ==
    LET entry == entries[i]
        expectedPreviousHash == IF i = 1 THEN GENESIS_HASH ELSE entries[i - 1].hash
        computedHash == computeHash(entry.sequence_number, entry.timestamp, entry.tool,
                                    entry.host, entry.agent, entry.verdict,
                                    entry.previous_hash)
    IN  (IF entry.previous_hash # expectedPreviousHash
         THEN <<Broken(entry.sequence_number, expectedPreviousHash, entry.previous_hash)>>
         ELSE <<>>)
        \o
        (IF computedHash # entry.hash
         THEN <<Broken(entry.sequence_number, computedHash, entry.hash)>>
         ELSE <<>>)

RECURSIVE BrokenFrom(_, _)
BrokenFrom(entries, i) ==
    IF i > Len(entries) THEN <<>>
    ELSE BrokenAt(entries, i) \o BrokenFrom(entries, i + 1)

verifyAuditChain(log) ==
    LET entries == EntriesBySequence(log)
        brokenChains == BrokenFrom(entries, 1)
    IN  [valid |-> Len(brokenChains) = 0, totalEntries |-> Len(entries),
         brokenChains |-> brokenChains]

-----------------------------------------------------------------------------
(* Audit log operations *)

\* the calls of createAuditEntry: a context and the mode whose default gives
\* the verdict
AuditContext(tool, agent) ==
    [tool |-> tool, host |-> h_lower, agent |-> agent, arguments |-> args_empty,
     confirmationToken |-> NoToken]
AuditCalls ==
    {[context |-> AuditContext(t_exec, a_user), mode |-> "silent-deny"],
     [context |-> AuditContext(t_exec, a_user), mode |-> "silent-allow"],
     [context |-> AuditContext(t_health, a_bot), mode |-> "alert"]}

ResponseUpdates ==
    {[responseStatus |-> "success", errorMessage |-> NoMessage],
     [responseStatus |-> "error", errorMessage |-> <<Lit("Policy"), Lit("denied")>>]}

Untampered == tamper.kind = "none"

\* createAuditEntry with the verdict the mode gives when no rule matches
createAuditEntry(context, mode) ==
    /\ Untampered
    /\ Cardinality(audit_log) < MaxAuditEntries
    /\ audit_log' = audit_log \cup
           {NewAuditRow(audit_log, sqlite_sequence, context,
                        ModeDefault(mode, <<>>, 0), mode, now)}
    /\ sqlite_sequence' = sqlite_sequence + 1
    /\ UNCHANGED <<restVars, limiterVars, policyVars, tamper, proxyVars>>

updateAuditEntry(id, update) ==
    /\ Untampered
    /\ audit_log' = UpdatedLog(audit_log, id, update)
    /\ audit_log' # audit_log
    /\ UNCHANGED <<restVars, limiterVars, policyVars, sqlite_sequence, tamper, proxyVars>>

-----------------------------------------------------------------------------
(* Two processes on one database file.  createAuditEntry issues three        *)
(* statements, each atomic on the file: the two SELECTs and the INSERT.      *)
(* Nothing wraps them in a transaction, so another process's statements may  *)
(* run between them.  A writer is [name, pc, call, sequenceNumber,           *)
(* previousHash, timestamp, calls].                                          *)

Writers == {"w1", "w2"}

MaxWriterCalls == 2     \* createAuditEntry calls of one writer

InFlight(w) == \E r \in writers : r.name = w /\ r.pc \in {"readHash", "insert"}

WriterOf(w) == CHOOSE r \in writers : r.name = w

CallsOf(w) == IF \E r \in writers : r.name = w THEN WriterOf(w).calls ELSE 0

\* UNIQUE(sequence_number), UNIQUE(hash)
ViolatesUnique(log, row) ==
    \E r \in log : r.sequence_number = row.sequence_number \/ r.hash = row.hash

\* const sequenceNumber = getLastSequenceNumber(db) + 1
ReadLastSequence(w, call) ==
    /\ ~InFlight(w)
    /\ CallsOf(w) < MaxWriterCalls
    /\ writers' = {r \in writers : r.name # w} \cup
           {[name |-> w, pc |-> "readHash", call |-> call,
             sequenceNumber |-> getLastSequenceNumber(audit_log) + 1,
             previousHash |-> <<>>, timestamp |-> 0, calls |-> CallsOf(w) + 1]}
    /\ UNCHANGED <<policyVars, auditVars, proxyVars, limiterVars, exitCode, baselineVars, attempts, bridge>>

\* const previousHash = getLastHash(db); const timestamp = Date.now()
ReadLastHash(w) ==
    /\ \E r \in writers : r.name = w /\ r.pc = "readHash"
    /\ writers' = {r \in writers : r.name # w} \cup
           {[WriterOf(w) EXCEPT !.pc = "insert",
                                !.previousHash = getLastHash(audit_log),
                                !.timestamp = now]}
    /\ UNCHANGED <<policyVars, auditVars, proxyVars, limiterVars, exitCode, baselineVars, attempts, bridge>>

\* stmt.run(...): the row is inserted, or SQLite refuses it for a UNIQUE
\* constraint and the call throws
Insert(w) ==
    /\ \E r \in writers : r.name = w /\ r.pc = "insert"
    /\ LET me == WriterOf(w)
           row == AuditRow(sqlite_sequence, me.sequenceNumber, me.previousHash,
                           me.call.context, ModeDefault(me.call.mode, <<>>, 0),
                           me.call.mode, me.timestamp)
       IN  IF ViolatesUnique(audit_log, row)
           THEN /\ writers' = {r \in writers : r.name # w}
                                  \cup {[me EXCEPT !.pc = "failed"]}
                /\ UNCHANGED <<audit_log, sqlite_sequence>>
           ELSE /\ writers' = {r \in writers : r.name # w}
                                  \cup {[me EXCEPT !.pc = "committed"]}
                /\ audit_log' = audit_log \cup {row}
                /\ sqlite_sequence' = sqlite_sequence + 1
    /\ UNCHANGED <<policyVars, tamper, proxyVars, limiterVars, exitCode, baselineVars, attempts, bridge>>

NextWriters ==
    \/ \E w \in Writers : \E call \in AuditCalls : ReadLastSequence(w, call)
    \/ \E w \in Writers : ReadLastHash(w)
    \/ \E w \in Writers : Insert(w)

SpecWriters == Init /\ [][NextWriters]_vars

NextAudit ==
    \/ Tick
    \/ \E call \in AuditCalls : createAuditEntry(call.context, call.mode)
    \/ \E id \in 1..MaxAuditEntries : \E u \in ResponseUpdates : updateAuditEntry(id, u)

SpecAudit == Init /\ [][NextAudit]_vars

\* a retention run that links the oldest entry it keeps to the genesis hash
RetainedEntries_Relinked(log, cutoffTime) == {IF \A o \in log : o.timestamp < cutoffTime \/ r.sequence_number <= o.sequence_number THEN [r EXCEPT !.previous_hash = GENESIS_HASH, !.hash = computeHash(r.sequence_number, r.timestamp, r.tool, r.host, r.agent, r.verdict, GENESIS_HASH)] ELSE r : r \in {x \in log : ~(x.timestamp < cutoffTime)}}

\* DELETE FROM audit_log WHERE timestamp < ?
RetainedEntries(log, cutoffTime) == {r \in log : ~(r.timestamp < cutoffTime)}

RetentionPeriods == {0, COOLDOWN_MS}

\* applyRetention: cutoffTime = Date.now() - retentionMs
applyRetention(retentionMs) ==
    /\ Untampered
    /\ audit_log' = RetainedEntries(audit_log, now - retentionMs)
    /\ audit_log' # audit_log
    /\ UNCHANGED <<restVars, limiterVars, policyVars, sqlite_sequence, tamper, proxyVars>>

\* sequence numbers grow without bound once old entries are deleted
MaxSequenceNumber == 5

NextRetention ==
    \/ Tick
    \/ \E call \in AuditCalls :
          /\ getLastSequenceNumber(audit_log) < MaxSequenceNumber
          /\ createAuditEntry(call.context, call.mode)
    \/ \E id \in 1..MaxSequenceNumber : \E u \in ResponseUpdates : updateAuditEntry(id, u)
    \/ \E retentionMs \in RetentionPeriods : applyRetention(retentionMs)

SpecRetention == Init /\ [][NextRetention]_vars

-----------------------------------------------------------------------------
(* The database file edited behind the program, once, on a chain the         *)
(* program built.                                                            *)

HashedFields ==
    {"sequence_number", "timestamp", "tool", "host", "agent", "verdict", "previous_hash"}

\* values a hashed column can be overwritten with (the table's UNIQUE and
\* CHECK constraints hold for the new row)
FieldValues(log, field) ==
    CASE field = "sequence_number" ->
             (1..(MaxAuditEntries + 1)) \ {r.sequence_number : r \in log}
      [] field = "timestamp" -> {k * COOLDOWN_MS : k \in 0..MaxTicks}
      [] field = "tool" -> Tools
      [] field = "host" -> Hosts
      [] field = "agent" -> Agents
      [] field = "verdict" -> VerdictStrings
      [] field = "previous_hash" -> {GENESIS_HASH} \cup {r.hash : r \in log}

\* UPDATE audit_log SET <field> = ? WHERE id = ?
TamperField(id, field, value) ==
    /\ Untampered
    /\ \E r \in audit_log :
          /\ r.id = id
          /\ r[field] # value
          /\ audit_log' = (audit_log \ {r}) \cup {[r EXCEPT ![field] = value]}
    /\ tamper' = [kind |-> "field", id |-> id, field |-> field, seq |-> 0,
                  last |-> FALSE]
    /\ UNCHANGED <<restVars, limiterVars, policyVars, sqlite_sequence, proxyVars>>

\* DELETE FROM audit_log WHERE sequence_number = ?
DeleteEntry(seq) ==
    /\ Untampered
    /\ \E r \in audit_log :
          /\ r.sequence_number = seq
          /\ audit_log' = audit_log \ {r}
          /\ tamper' = [kind |-> "delete", id |-> r.id, field |-> "", seq |-> seq,
                        last |-> (seq = getLastSequenceNumber(audit_log))]
    /\ UNCHANGED <<restVars, limiterVars, policyVars, sqlite_sequence, proxyVars>>

NextTamper ==
    \/ Tick
    \/ \E call \in AuditCalls : createAuditEntry(call.context, call.mode)
    \/ \E id \in 1..MaxAuditEntries : \E u \in ResponseUpdates : updateAuditEntry(id, u)
    \/ \E id \in 1..MaxAuditEntries : \E field \in HashedFields :
          \E value \in FieldValues(audit_log, field) : TamperField(id, field, value)
    \/ \E seq \in 1..MaxAuditEntries : DeleteEntry(seq)

SpecTamper == Init /\ [][NextTamper]_vars

\* the columns of audit_log that computeHash does not read
UnhashedFields ==
    {"arguments", "action", "matched_rule_id", "risk_score", "risk_factors", "mode",
     "response_status", "error_message"}

\* values a column outside the hash can be overwritten with
UnhashedValues(field) ==
    CASE field = "arguments" -> {<<"{","x","}">>}
      [] field = "action" -> {"allow", "deny"}
      [] field = "matched_rule_id" -> {NoRule, "r1"}
      [] field = "risk_score" -> {0, 100}
      [] field = "risk_factors" -> {Stringify(<<RiskFactor("edited", 100)>>)}
      [] field = "mode" -> {"silent-allow", "lockdown"}
      [] field = "response_status" -> {NoStatus, "success"}
      [] field = "error_message" -> {<<Lit("edited")>>}

\* UPDATE audit_log SET <field> = ? WHERE id = ?, on a column outside the hash
TamperUnhashed(id, field, value) ==
    /\ Untampered
    /\ \E r \in audit_log :
          /\ r.id = id
          /\ r[field] # value
          /\ audit_log' = (audit_log \ {r}) \cup {[r EXCEPT ![field] = value]}
    /\ tamper' = [kind |-> "unhashed", id |-> id, field |-> field, seq |-> 0,
                  last |-> FALSE]
    /\ UNCHANGED <<restVars, limiterVars, policyVars, sqlite_sequence, proxyVars>>

NextTamperUnhashed ==
    \/ Tick
    \/ \E call \in AuditCalls : createAuditEntry(call.context, call.mode)
    \/ \E id \in 1..MaxAuditEntries : \E u \in ResponseUpdates : updateAuditEntry(id, u)
    \/ \E id \in 1..MaxAuditEntries : \E field \in UnhashedFields :
          \E value \in UnhashedValues(field) : TamperUnhashed(id, field, value)

SpecTamperUnhashed == Init /\ [][NextTamperUnhashed]_vars

-----------------------------------------------------------------------------
(* The interceptor.  A request is [id, method, name, host, agent]: name is   *)
(* params.name, host is params.arguments.host and agent is params.agent,     *)
(* each <<>> when absent.  The caller numbers its requests 1, 2, ...         *)
(* effects is the order in which the process commits audit entries and       *)
(* writes to the downstream process's stdin and to its own stdout.           *)

MaxRequests == 2        \* requests the caller sends

FORWARD_TIMEOUT_MS == 15000

m_call == "tools/call"
m_init == "initialize"
h_local == <<"l","o","c","a","l">>
a_unknown == <<"u","n","k","n","o","w","n">>

Request(id, method, name, host, agent) ==
    [id |-> id, method |-> method, name |-> name, host |-> host, agent |-> agent,
     confirmationToken |-> NoToken]

\* the same call sent again under a new id, presenting a confirmation token
Retry(request, id, token) == [request EXCEPT !.id = id, !.confirmationToken = token]

RequestsWithId(id) ==
    {Request(id, m_init, <<>>, <<>>, <<>>),
     Request(id, m_call, <<>>, h_lower, a_user),
     Request(id, m_call, t_exec, h_lower, a_user),
     Request(id, m_call, t_health, <<>>, <<>>)}

NoContext == [tool |-> <<>>]

\* null unless the method is tools/call and params.name is truthy
extractContext(request) ==
    IF request.method # m_call THEN NoContext
    ELSE IF request.name = <<>> THEN NoContext
    ELSE [tool |-> request.name,
          host |-> IF request.host # <<>> THEN request.host ELSE h_local,
          agent |-> IF request.agent # <<>> THEN request.agent ELSE a_unknown,
          arguments |-> args_empty,
          confirmationToken |-> NoToken]

\* entries of effects
AuditCommitted(id, auditEntryId) ==
    [kind |-> "audit", id |-> id, auditEntryId |-> auditEntryId, code |-> 0,
     confirmationToken |-> NoToken]
WrittenDownstream(id) ==
    [kind |-> "forward", id |-> id, auditEntryId |-> 0, code |-> 0,
     confirmationToken |-> NoToken]
WrittenToCaller(id, code) ==
    [kind |-> "reply", id |-> id, auditEntryId |-> 0, code |-> code,
     confirmationToken |-> NoToken]
\* the reply to an ask verdict carries error.data.confirmationToken
ConfirmationRequired(id, token) ==
    [WrittenToCaller(id, -32001) EXCEPT !.confirmationToken = token]

\* an ask verdict handled like an allow
IsAsk_Never(verdict) == FALSE

\* if (verdict.action === 'ask')
IsAsk(verdict) == verdict.action = "ask"

\* randomUUID: a token not in the table
ProxyTokenIds == {"T1", "T2", "T3", "T4"}
FreshToken(tokens) == CHOOSE t \in ProxyTokenIds : \A r \in tokens : r.token # t

\* what handleAgentRequest leaves behind
Handled(cb, q, tokens, log, lastId, callbacks, done) ==
    [circuit_breakers |-> cb, quarantine |-> q, confirmation_tokens |-> tokens,
     audit_log |-> log, sqlite_sequence |-> lastId, responseCallbacks |-> callbacks,
     effects |-> done]

\* handleAgentRequest from "Handle verdict" on: out is evaluatePolicy's answer,
\* auditEntry the entry createAuditEntry returned, log the table holding it
ActOnVerdict(request, context, out, auditEntry, log, callbacks, t) ==
    LET verdict == out.verdict
        audited == AuditCommitted(request.id, auditEntry.id)
        token == FreshToken(out.confirmation_tokens)
        tokenRow == TokenRow(token, context, DEFAULT_TTL_MS, t)
    IN  IF verdict.action = "deny"
        THEN Handled(out.circuit_breakers, out.quarantine, out.confirmation_tokens,
                     UpdatedLog(log, auditEntry.id,
                                [responseStatus |-> "error",
                                 errorMessage |-> verdict.reason]),
                     auditEntry.id, callbacks,
                     <<audited, WrittenToCaller(request.id, -32000)>>)
        ELSE IF IsAsk(verdict)
        THEN Handled(out.circuit_breakers, out.quarantine,
                     out.confirmation_tokens \cup {tokenRow},
                     UpdatedLog(log, auditEntry.id,
                                [responseStatus |-> "error",
                                 errorMessage |-> <<Lit("Confirmation"), Lit("required:")>>
                                                  \o verdict.reason]),
                     auditEntry.id, callbacks,
                     <<audited, ConfirmationRequired(request.id, token)>>)
        ELSE Handled(out.circuit_breakers, out.quarantine, out.confirmation_tokens,
                     log, auditEntry.id,
                     {c \in callbacks : c.id # request.id}
                         \cup {[id |-> request.id, auditEntryId |-> auditEntry.id,
                                deadline |-> t + FORWARD_TIMEOUT_MS]},
                     <<audited, WrittenDownstream(request.id)>>)

\* the stream write made ahead of the audit commit
AuditThenAct_WriteFirst(request, context, out, log, lastId, callbacks, mode, t) ==
    LET auditEntry == NewAuditRow(log, lastId, context, out.verdict, mode, t)
        done == ActOnVerdict(request, context, out, auditEntry, log \cup {auditEntry},
                             callbacks, t)
    IN  [done EXCEPT !.effects = <<done.effects[2], done.effects[1]>>]

\* createAuditEntry, then the verdict is acted on
AuditThenAct(request, context, out, log, lastId, callbacks, mode, t) ==
    \* the audit entry is created and committed first
    LET auditEntry == NewAuditRow(log, lastId, context, out.verdict, mode, t)
    IN  ActOnVerdict(request, context, out, auditEntry, log \cup {auditEntry},
                     callbacks, t)

\* every line forwarded as it came
HandledRequest_PassThrough(request, rs, q, cb, tokens, log, lastId, callbacks, mode, t) == Handled(cb, q, tokens, log, lastId, callbacks, <<WrittenDownstream(request.id)>>)

\* handleAgentRequest on a parsed line
HandledRequest(request, rs, q, cb, tokens, log, lastId, callbacks, mode, t) ==
    LET context == extractContext(request)
    IN  IF context = NoContext
        THEN Handled(cb, q, tokens, log, lastId, callbacks,
                     <<WrittenDownstream(request.id)>>)
        ELSE AuditThenAct(request, context,
                          evaluatePolicy(rs, q, cb, tokens, context, mode, t, 0, <<>>),
                          log, lastId, callbacks, mode, t)

-----------------------------------------------------------------------------
(* Interceptor steps *)

Arrived == {effects[i].id : i \in 1..Len(effects)}
Forwarded == {effects[i].id : i \in {j \in 1..Len(effects) : effects[j].kind = "forward"}}

\* INSERT OR REPLACE INTO config (key, value) VALUES ('mode', ?)
setConfig(mode) ==
    /\ Running
    /\ config_mode # mode
    /\ config_mode' = mode
    /\ UNCHANGED <<restVars, limiterVars, policyVars, auditVars, responseCallbacks, effects, received, answered>>

\* a line from the caller
handleAgentRequest(request) ==
    /\ Running
    /\ request.id = Cardinality(Arrived) + 1
    /\ request.id <= MaxRequests
    /\ \E done \in {HandledRequest(request, rules, quarantine, circuit_breakers,
                                    confirmation_tokens, audit_log, sqlite_sequence,
                                    responseCallbacks,
                                    IF config_mode # NoMode THEN config_mode
                                    ELSE "silent-allow",
                                    now)} :
           /\ circuit_breakers' = done.circuit_breakers
           /\ quarantine' = done.quarantine
           /\ confirmation_tokens' = done.confirmation_tokens
           /\ audit_log' = done.audit_log
           /\ sqlite_sequence' = done.sqlite_sequence
           /\ responseCallbacks' = done.responseCallbacks
           /\ effects' = effects \o done.effects
           /\ minted' = minted \cup
                  {Minted(r.token) : r \in done.confirmation_tokens \ confirmation_tokens}
           /\ decisions' =
                  LET entries == done.audit_log \ audit_log
                  IN  IF entries = {} THEN decisions
                      ELSE LET e == CHOOSE r \in entries : TRUE
                           IN  Decided(decisions, rules, e.matched_rule_id,
                                       e.verdict = v_allowed, e, now)
           /\ \A d \in decisions' : Len(d.allowedAt) <= MaxDecisions
    /\ received' = Append(received, request)
    /\ UNCHANGED <<restVars, limiterVars, now, rules, lastEval, tamper, config_mode, answered>>

\* the timer set by forwardToOpenclawWithTimeout fires
ForwardTimeout(id) ==
    /\ Running
    /\ \E c \in responseCallbacks :
          /\ c.id = id
          /\ now >= c.deadline
          /\ responseCallbacks' = responseCallbacks \ {c}
          /\ audit_log' = UpdatedLog(audit_log, c.auditEntryId,
                                     [responseStatus |-> "timeout",
                                      errorMessage |-> NoMessage])
    /\ effects' = Append(effects, WrittenToCaller(id, -32002))
    /\ UNCHANGED <<restVars, limiterVars, policyVars, sqlite_sequence, tamper, config_mode, received, answered>>

\* a reply that leaves the callback, and its timer, in place
Resolved_TimerLeftRunning(callbacks, c) == callbacks

\* responseCallbacks.delete(response.id) and, in resolve, clearTimeout(timer)
Resolved(callbacks, c) == callbacks \ {c}

\* a line from the downstream process: its answer to a request it was sent
handleOpenclawResponse(id, hasError) ==
    /\ Running
    /\ id \in Forwarded \ answered
    /\ answered' = answered \cup {id}
    /\ IF \E c \in responseCallbacks : c.id = id
       THEN LET c == CHOOSE c \in responseCallbacks : c.id = id
            IN  /\ responseCallbacks' = Resolved(responseCallbacks, c)
                /\ audit_log' = UpdatedLog(audit_log, c.auditEntryId,
                       [responseStatus |-> IF hasError THEN "error" ELSE "success",
                        errorMessage |-> IF hasError
                                         THEN <<Lit("downstream"), Lit("error")>>
                                         ELSE NoMessage])
       ELSE UNCHANGED <<responseCallbacks, audit_log>>
    /\ effects' = Append(effects, WrittenToCaller(id, IF hasError THEN 1 ELSE 0))
    /\ UNCHANGED <<restVars, limiterVars, policyVars, sqlite_sequence, tamper, config_mode, received>>

\* rules are put in place before traffic starts
ProxySetup == now = 0 /\ Len(effects) = 0 /\ Len(rules) = 0

NextInterceptor ==
    \/ Tick
    \/ \E mode \in Modes : setConfig(mode)
    \/ \E args \in {a \in RuleTemplates : a.action \in {"ask", "log-only"}} :
          ProxySetup /\ RuleCreate(args)
    \/ \E id \in 1..MaxRequests : \E request \in RequestsWithId(id) :
          handleAgentRequest(request)
    \/ \E id \in 1..MaxRequests : ForwardTimeout(id)
    \/ \E id \in 1..MaxRequests : \E hasError \in BOOLEAN :
          handleOpenclawResponse(id, hasError)

SpecInterceptor == Init /\ [][NextInterceptor]_vars

\* a timer that is due and has not been cleared fires
SpecInterceptorTimers ==
    SpecInterceptor /\ \A id \in 1..MaxRequests : WF_vars(ForwardTimeout(id))

\* the child's exit codes: null when a signal ended it
ChildExitCodes == {NULL_NUMBER, 0, 3}

\* process.exit(code ?? 1)
ExitedWith(code) == {IF code = NULL_NUMBER THEN 1 ELSE code}

\* openclawProcess.on('exit', ...): the log line, then process.exit; the
\* pending callbacks are not visited
OpenclawExit(code) ==
    /\ Running
    /\ exitCode' = ExitedWith(code)
    /\ UNCHANGED <<limiterVars, policyVars, auditVars, proxyVars, baselineVars, writers, attempts, bridge>>

\* the tokens the caller was handed in the reply to request id
TokensRepliedTo(id) ==
    {effects[i].confirmationToken :
        i \in {j \in 1..Len(effects) : /\ effects[j].kind = "reply"
                                       /\ effects[j].id = id
                                       /\ effects[j].confirmationToken # NoToken}}

\* the caller retries a call it was asked to confirm
NextInterceptorRetry ==
    \/ NextInterceptor
    \/ \E i \in 1..Len(received) : \E token \in TokensRepliedTo(i) :
          handleAgentRequest(Retry(received[i], Len(received) + 1, token))

SpecInterceptorRetry == Init /\ [][NextInterceptorRetry]_vars

NextInterceptorExit ==
    \/ NextInterceptor
    \/ \E code \in ChildExitCodes : OpenclawExit(code)

\* the interceptor with a downstream process that may exit
SpecInterceptorExit == Init /\ [][NextInterceptorExit]_vars

\* the interceptor in front of hosts whose failures and successes are recorded
NextInterceptorBreaker ==
    \/ Tick
    \/ \E host \in Hosts : recordFailure(host)
    \/ \E host \in Hosts : recordSuccess(host)
    \/ \E id \in 1..MaxRequests : \E request \in RequestsWithId(id) :
          handleAgentRequest(request)

SpecInterceptorBreaker == Init /\ [][NextInterceptorBreaker]_vars

\* the proxy and direct callers of evaluatePolicy over every kind of verdict:
\* safety gates, rules of each action, confirmation tokens, mode defaults.
\* The tables are filled before the proxy takes its first request.
NextVerdicts ==
    \/ \E mode \in Modes : Len(effects) = 0 /\ setConfig(mode)
    \/ \E args \in RuleTemplates : ProxySetup /\ RuleCreate(args)
    \/ \E host \in Hosts : Len(effects) = 0 /\ recordFailure(host)
    \/ \E scope \in QuarantineScopes : \E target \in TargetsOf(scope) :
          Len(effects) = 0 /\ Quarantine(scope, target, COOLDOWN_MS)
    \/ \E token \in TokenIds : \E c \in TokenContexts :
          Len(effects) = 0 /\ generateConfirmationToken(token, c, DEFAULT_TTL_MS)
    \/ \E c \in Contexts :
          Evaluate(c, IF config_mode # NoMode THEN config_mode ELSE "silent-allow")
    \/ TakeVerdict
    \/ \E id \in 1..MaxRequests : \E request \in RequestsWithId(id) :
          Idle /\ handleAgentRequest(request)

SpecVerdicts == Init /\ [][NextVerdicts]_vars

\* console.error('Failed to handle agent request:', error)
FailureLogged(id) ==
    [kind |-> "log", id |-> id, auditEntryId |-> 0, code |-> 0,
     confirmationToken |-> NoToken]

\* the statements of handleAgentRequest that write to the store and run before
\* the verdict is acted on: those of evaluatePolicy, and createAuditEntry's INSERT
FailurePoints == {"evaluatePolicy", "createAuditEntry"}

\* a line from the caller, handled while the store refuses a write: the
\* statement throws, the statements before it have taken effect, and the
\* catch block of handleAgentRequest logs the error
handleAgentRequestFailing(request, failAt) ==
    /\ Running
    /\ request.id = Cardinality(Arrived) + 1
    /\ request.id <= MaxRequests
    /\ extractContext(request) # NoContext
    /\ LET out == evaluatePolicy(rules, quarantine, circuit_breakers,
                                 confirmation_tokens, extractContext(request),
                                 IF config_mode # NoMode THEN config_mode
                                 ELSE "silent-allow",
                                 now, 0, <<>>)
       IN  IF failAt = "createAuditEntry"
           THEN /\ quarantine' = out.quarantine
                /\ circuit_breakers' = out.circuit_breakers
                /\ confirmation_tokens' = out.confirmation_tokens
           ELSE \* one of evaluatePolicy's statements throws: those after it
                \* have not run
                /\ quarantine' \in {quarantine, out.quarantine}
                /\ circuit_breakers' \in
                       IF quarantine' = out.quarantine
                       THEN {circuit_breakers, out.circuit_breakers}
                       ELSE {circuit_breakers}
                /\ confirmation_tokens' = confirmation_tokens
    /\ effects' = Append(effects, FailureLogged(request.id))
    /\ received' = Append(received, request)
    /\ UNCHANGED <<restVars, limiterVars, now, rules, lastEval, minted, decisions,
                   auditVars, config_mode, responseCallbacks, answered>>

NextInterceptorFaults ==
    \/ NextInterceptor
    \/ \E id \in 1..MaxRequests : \E request \in RequestsWithId(id) :
          \E failAt \in FailurePoints : handleAgentRequestFailing(request, failAt)

\* the interceptor on a store that may refuse a write
SpecInterceptorFaults == Init /\ [][NextInterceptorFaults]_vars

-----------------------------------------------------------------------------
(* The gateway bridge.  A call of sendRequest is [id, sentAt, connected,     *)
(* outcome, timer, sending]: outcome is how its promise settled              *)
(* ("pending" until then), timer tells that its timeout is armed, sending    *)
(* that the callback of ws.send is still to come.  pendingRequests is a set  *)
(* of [id, n], one entry for an id, n the call that registered it.  A        *)
(* promise settles once: resolve and reject on a settled promise do nothing. *)

REQUEST_TIMEOUT_MS == 30000

MaxBridgeRequests == 3      \* sendRequest calls
MaxBridgeMs == 45000        \* the clock of the bridge runs this far

bridgeFrame == <<policyVars, auditVars, proxyVars, limiterVars, exitCode, baselineVars,
                 writers, attempts>>

timeFrame == <<decisions, lastEval, minted, rules, quarantine, circuit_breakers,
               confirmation_tokens, auditVars, proxyVars, limiterVars, exitCode,
               baselineVars, writers, attempts>>

\* ids: 'connect', and `status-${Date.now()}`, equal for calls in one millisecond
StatusId(t) == <<"status", t>>
ConnectId == <<"connect", 0>>

\* resolve or reject on the promise of call n
Settled(requests, n, outcome, t) ==
    IF requests[n].outcome = "pending"
    THEN [requests EXCEPT ![n].outcome = outcome]
    ELSE requests

\* clearTimeout
Cleared(requests, n) == [requests EXCEPT ![n].timer = FALSE]

\* an entry left in the map when its request settles
Deleted_Never(pending, id) == pending

\* pendingRequests.delete(id)
Deleted(pending, id) == {e \in pending : e.id # id}

\* sendRequest on a bridge b at time t: what it leaves behind
sendRequest(b, id, t) ==
    LET n == Len(b.requests) + 1
        call == [id |-> id, sentAt |-> t, connected |-> TRUE, outcome |-> "pending",
                 timer |-> TRUE, sending |-> TRUE]
    IN  IF ~b.connected \/ b.ws = "null"
        THEN \* throw new Error('Not connected to Gateway')
             [b EXCEPT !.requests =
                 Append(@, [call EXCEPT !.connected = FALSE,
                                         !.outcome = "notConnected",
                                         !.timer = FALSE,
                                         !.sending = FALSE])]
        ELSE [b EXCEPT !.requests = Append(@, call),
                       !.pendingRequests = Deleted(@, id) \cup {[id |-> id, n |-> n]}]

\* handleDisconnect: every entry of the map is rejected, its timer cleared
RECURSIVE RejectAll(_, _, _)
RejectAll(requests, pending, t) ==
    IF pending = {} THEN requests
    ELSE LET e == CHOOSE x \in pending : TRUE
         IN  RejectAll(Settled(Cleared(requests, e.n), e.n, "disconnected", t),
                       pending \ {e}, t)

\* the room left for a call and for its timeout within the bounds
RoomToSend == Len(bridge.requests) < MaxBridgeRequests /\ now + REQUEST_TIMEOUT_MS <= MaxBridgeMs

\* connect(): new WebSocket(gatewayUrl)
Connect ==
    /\ ~bridge.connected
    /\ bridge.ws \in {"null", "closed"}
    /\ bridge' = [bridge EXCEPT !.ws = "connecting"]
    /\ UNCHANGED <<bridgeFrame>>

\* ws.on('open'): connected = true, handleConnect sends the connect request
SocketOpen ==
    /\ bridge.ws = "connecting"
    /\ RoomToSend
    /\ bridge' = sendRequest([bridge EXCEPT !.ws = "open", !.connected = TRUE],
                             ConnectId, now)
    /\ UNCHANGED <<bridgeFrame>>

\* getSecurityStatus: sendRequest({id: `status-${Date.now()}`, ...})
SendRequest ==
    /\ RoomToSend
    /\ bridge' = sendRequest(bridge, StatusId(now), now)
    /\ UNCHANGED <<bridgeFrame>>

\* the callback of ws.send, with or without an error
SendDone(n, error) ==
    /\ n \in 1..Len(bridge.requests)
    /\ bridge.requests[n].sending
    /\ LET done == [bridge.requests EXCEPT ![n].sending = FALSE]
       IN  bridge' =
               IF error
               THEN [bridge EXCEPT
                       !.requests = Settled(Cleared(done, n), n, "sendError", now),
                       !.pendingRequests = Deleted(@, bridge.requests[n].id)]
               ELSE [bridge EXCEPT !.requests = done]
    /\ UNCHANGED <<bridgeFrame>>

\* a response of the gateway to a request that was written to the socket
handleResponse(id) ==
    /\ bridge.ws = "open"
    /\ \E n \in 1..Len(bridge.requests) :
          /\ bridge.requests[n].id = id
          /\ bridge.requests[n].connected
          /\ ~bridge.requests[n].sending
    /\ \E e \in bridge.pendingRequests :
          /\ e.id = id
          /\ bridge' = [bridge EXCEPT
                  !.requests = Settled(Cleared(@, e.n), e.n, "response", now),
                  !.pendingRequests = Deleted(@, id)]
    /\ UNCHANGED <<bridgeFrame>>

\* the timer set by sendRequest fires
RequestTimeout(n) ==
    /\ n \in 1..Len(bridge.requests)
    /\ bridge.requests[n].timer
    /\ now >= bridge.requests[n].sentAt + REQUEST_TIMEOUT_MS
    /\ bridge' = [bridge EXCEPT
            !.requests = Settled(Cleared(@, n), n, "timeout", now),
            !.pendingRequests = Deleted(@, bridge.requests[n].id)]
    /\ UNCHANGED <<bridgeFrame>>

\* ws.on('close') of the socket in use: connected = false, handleDisconnect
SocketClose ==
    /\ bridge.ws = "open"
    /\ bridge' = [bridge EXCEPT
            !.ws = "closed", !.connected = FALSE,
            !.requests = RejectAll(@, bridge.pendingRequests, now),
            !.pendingRequests = {}]
    /\ UNCHANGED <<bridgeFrame>>

\* disconnect(): ws.close(), ws = null, connected = false
Disconnect ==
    /\ bridge.ws # "null"
    /\ bridge' = [bridge EXCEPT
            !.ws = "null", !.connected = FALSE,
            !.closing = @ \/ bridge.ws \in {"connecting", "open"}]
    /\ UNCHANGED <<bridgeFrame>>

\* ws.on('close') of a socket dropped by disconnect()
DroppedSocketClose ==
    /\ bridge.closing
    /\ bridge' = [bridge EXCEPT
            !.closing = FALSE, !.connected = FALSE,
            !.requests = RejectAll(@, bridge.pendingRequests, now),
            !.pendingRequests = {}]
    /\ UNCHANGED <<bridgeFrame>>

\* the clock moves by half the request timeout
Pass ==
    /\ now + REQUEST_TIMEOUT_MS \div 2 <= MaxBridgeMs
    /\ now' = now + REQUEST_TIMEOUT_MS \div 2
    /\ UNCHANGED <<timeFrame, bridge>>

NextBridge ==
    \/ Connect
    \/ SocketOpen
    \/ SendRequest
    \/ \E n \in 1..MaxBridgeRequests : \E error \in BOOLEAN : SendDone(n, error)
    \/ \E id \in {bridge.requests[n].id : n \in 1..Len(bridge.requests)} :
          handleResponse(id)
    \/ \E n \in 1..MaxBridgeRequests : RequestTimeout(n)
    \/ SocketClose
    \/ Disconnect
    \/ DroppedSocketClose
    \/ Pass

\* timers that are due fire, and time passes
SpecBridge ==
    /\ Init /\ [][NextBridge]_vars
    /\ WF_vars(Pass)
    /\ \A n \in 1..MaxBridgeRequests : WF_vars(RequestTimeout(n))

-----------------------------------------------------------------------------
(* Anomaly baselines.  A row of anomaly_baselines is [tool, host,            *)
(* argument_fingerprints]; the statistics columns (EWMA means, deviations,   *)
(* hourly distribution, bigrams, sample_count, last_updated) are written     *)
(* from the audit log and the clock and take no part in the fingerprint      *)
(* list.  The caller passes the row it read with getBaseline, or undefined   *)
(* when there is none.  Argument sets are numbered: set n is {"n": n}.       *)

MAX_FINGERPRINTS == 1000

MaxInserted == 1003     \* fingerprints stored in one baseline, evicted ones included

\* JSON.stringify({n: n}, ["n"])
NormalizedArguments(n) == <<"{","\"","n","\"",":">> \o ToDecimal(n) \o <<"}">>

\* sha256 of the arguments serialized with sorted keys
hashArguments(normalized) == SHA256(normalized)

NoBaseline == [tool |-> <<>>]

getBaseline(baselines, tool, host) ==
    IF \E r \in baselines : r.tool = tool /\ r.host = host
    THEN CHOOSE r \in baselines : r.tool = tool /\ r.host = host
    ELSE NoBaseline

\* fingerprints.includes(argFingerprint)
IncludesFingerprint(fingerprints, argFingerprint) ==
    \E i \in 1..Len(fingerprints) : fingerprints[i] = argFingerprint

\* the push without the shift
Shifted_Never(fingerprints) == fingerprints

\* if (fingerprints.length > 1000) fingerprints.shift()
Shifted(fingerprints) ==
    IF Len(fingerprints) > MAX_FINGERPRINTS THEN Tail(fingerprints) ELSE fingerprints

\* "Update argument fingerprints (keep last 1000)"
UpdatedFingerprints(fingerprints, argFingerprint) ==
    IF ~IncludesFingerprint(fingerprints, argFingerprint)
    THEN Shifted(Append(fingerprints, argFingerprint))
    ELSE fingerprints

\* the table after updateBaseline(db, baseline, context)
updateBaseline(baselines, baseline, context) ==
    LET argFingerprint == hashArguments(context.arguments)
        row == [tool |-> context.tool, host |-> context.host,
                argument_fingerprints |->
                    IF baseline = NoBaseline THEN <<argFingerprint>>
                    ELSE UpdatedFingerprints(baseline.argument_fingerprints,
                                             argFingerprint)]
    IN  \* INSERT ... ON CONFLICT(tool, host) DO UPDATE
        {r \in baselines : ~(r.tool = context.tool /\ r.host = context.host)}
            \cup {row}

BaselineContext(n) ==
    [tool |-> t_exec, host |-> h_lower, agent |-> a_user,
     arguments |-> NormalizedArguments(n), confirmationToken |-> NoToken]

\* the argument sets a call is observed with: one never seen, the first one
\* stored and the last one stored
ObservedNext ==
    IF inserted = <<>> THEN {1}
    ELSE {1 + Len(inserted), inserted[1], inserted[Len(inserted)]}

\* an observed call: the baseline is read, then updated
UpdateBaseline(n) ==
    /\ Idle
    /\ \E context \in {BaselineContext(n)} :
       \E baseline \in {getBaseline(anomaly_baselines, context.tool, context.host)} :
          /\ anomaly_baselines' = updateBaseline(anomaly_baselines, baseline, context)
          /\ inserted' =
                IF \/ baseline = NoBaseline
                   \/ ~IncludesFingerprint(baseline.argument_fingerprints,
                                           hashArguments(context.arguments))
                THEN Append(inserted, n)
                ELSE inserted
    /\ Len(inserted') <= MaxInserted
    /\ UNCHANGED <<policyVars, auditVars, proxyVars, limiterVars, exitCode, writers, attempts, bridge>>

NextBaseline == \E n \in ObservedNext : UpdateBaseline(n)

SpecBaseline == Init /\ [][NextBaseline]_vars

-----------------------------------------------------------------------------
(* Properties of evaluatePolicy.  lastEval holds the call's inputs (the      *)
(* tables as they were, the context, the mode, the clock) and its verdict.   *)

Evaluated == lastEval.kind = "eval"

ReasonContains(reason, word) ==
    \E i \in 1..Len(reason) : reason[i].lit /\ reason[i].text = word

\* the host's circuit is open and its cooldown has not elapsed
CircuitInCooldown(e) ==
    \E r \in e.circuit_breakers :
        /\ r.host = e.context.host
        /\ r.state = "open"
        /\ e.at - r.opened_at < COOLDOWN_MS

Unexpired(r, t) == r.expires_at = NULL_TIME \/ r.expires_at >= t

QuarantinedScope(e, scope, target) ==
    \E r \in e.quarantine : r.scope = scope /\ r.target = target /\ Unexpired(r, e.at)

QuarantinedAny(e) ==
    \/ QuarantinedScope(e, "host", e.context.host)
    \/ QuarantinedScope(e, "tool", e.context.tool)
    \/ QuarantinedScope(e, "agent", e.context.agent)

\* the modelled tools whose names contain "health" or "status"
NamesHealthOrStatus(tool) == tool \in {t_health, t_status}

LockdownBlocks(e) == e.mode = "lockdown" /\ ~NamesHealthOrStatus(e.context.tool)

\* an enabled rule with this action matches the evaluated request
SomeRuleMatches(e, action) ==
    \E i \in 1..Len(rules) :
        /\ rules[i].enabled = 1
        /\ rules[i].action = action
        /\ ruleMatches(rules[i], e.context, e.at)

\* C1: a request whose host has an open circuit still in cooldown, or whose
\* host, tool or agent has an unexpired quarantine entry, or that arrives in
\* lockdown for a tool naming neither "health" nor "status", is never allowed,
\* whatever the rules, the mode and the presented token.
C1_GatesBeforeRules ==
    Evaluated =>
        ((CircuitInCooldown(lastEval) \/ QuarantinedAny(lastEval) \/ LockdownBlocks(lastEval))
            => lastEval.verdict.allowed = FALSE)

\* an evaluation stopped by the circuit gate although an enabled allow rule
\* matches the request
C1_Witness ==
    /\ Evaluated
    /\ CircuitInCooldown(lastEval)
    /\ SomeRuleMatches(lastEval, "allow")
    /\ lastEval.verdict.allowed = FALSE

\* C8 as stated: a quarantined host, tool or agent is denied with a reason
\* containing "quarantined".
C8_QuarantineReasonAlways ==
    (Evaluated /\ QuarantinedAny(lastEval)) =>
        /\ lastEval.verdict.allowed = FALSE
        /\ ReasonContains(lastEval.verdict.reason, "quarantined")

\* C8 amended: a quarantined host, tool or agent is denied whatever the rules;
\* the reason contains "quarantined" unless the circuit gate, which comes
\* first, has already denied the request.
C8_QuarantineDenies ==
    (Evaluated /\ QuarantinedAny(lastEval)) =>
        /\ lastEval.verdict.allowed = FALSE
        /\ lastEval.verdict.action = "deny"
        /\ (~CircuitInCooldown(lastEval) =>
                ReasonContains(lastEval.verdict.reason, "quarantined"))

\* a quarantined tool denied as quarantined although the allow-everything rule
\* with the lowest priority number matches
C8_Witness ==
    /\ Evaluated
    /\ QuarantinedScope(lastEval, "tool", lastEval.context.tool)
    /\ \E i \in 1..Len(rules) :
          /\ rules[i].enabled = 1 /\ rules[i].action = "allow"
          /\ rules[i].priority = -1000
          /\ ruleMatches(rules[i], lastEval.context, lastEval.at)
    /\ ReasonContains(lastEval.verdict.reason, "quarantined")
    /\ lastEval.verdict.allowed = FALSE

\* C9: in lockdown, when neither the circuit gate nor the quarantine gate
\* stops the request, a tool naming neither "health" nor "status" is denied
\* and a tool naming either is allowed with risk score 0, whatever the rules.
C9_Lockdown ==
    (Evaluated /\ lastEval.mode = "lockdown"
        /\ ~CircuitInCooldown(lastEval) /\ ~QuarantinedAny(lastEval)) =>
        IF NamesHealthOrStatus(lastEval.context.tool)
        THEN /\ lastEval.verdict.allowed = TRUE
             /\ lastEval.verdict.action = "allow"
             /\ lastEval.verdict.riskScore = 0
        ELSE /\ lastEval.verdict.allowed = FALSE
             /\ lastEval.verdict.action = "deny"

\* a status tool allowed in lockdown with score 0 although an enabled ask
\* rule matches it
C9_Witness ==
    /\ Evaluated
    /\ lastEval.mode = "lockdown"
    /\ lastEval.context.tool = t_status
    /\ SomeRuleMatches(lastEval, "ask")
    /\ lastEval.verdict.allowed = TRUE
    /\ lastEval.verdict.riskScore = 0

\* C10: under a mode outside the four enumerated ones no request is allowed.
C10_UnknownModeNeverAllows ==
    (Evaluated /\ lastEval.mode \notin ValidModes) => lastEval.verdict.allowed = FALSE

-----------------------------------------------------------------------------
(* Properties of the audit log *)

RowWithId(id) == CHOOSE r \in audit_log : r.id = id

\* a row with its two late-updated columns blanked
Frozen(r) == [r EXCEPT !.response_status = NoStatus, !.error_message = NoMessage]

\* C2: after N creations on an empty log, with late updates in between, the
\* stored sequence numbers are exactly 1..N, one per entry, increasing in the
\* order the entries were created.
C2_SequenceNumbers ==
    /\ Cardinality(audit_log) = sqlite_sequence
    /\ {r.sequence_number : r \in audit_log} = 1..sqlite_sequence
    /\ \A a, b \in audit_log : a.id < b.id => a.sequence_number < b.sequence_number

C2_Witness ==
    /\ Cardinality(audit_log) = MaxAuditEntries
    /\ \E a, b \in audit_log :
          /\ a.sequence_number = 1 /\ a.response_status = "success"
          /\ b.sequence_number = MaxAuditEntries /\ b.response_status = NoStatus

\* C3: the first entry's previous_hash is GENESIS and every later entry's
\* previous_hash is the stored hash of the entry with the preceding sequence
\* number; an entry written after another has the larger sequence number, and
\* the next one written carries the earlier one's hash.
C3_ChainLinks ==
    /\ \A r \in audit_log :
          IF r.sequence_number = 1
          THEN r.previous_hash = GENESIS_HASH
          ELSE \E p \in audit_log : /\ p.sequence_number = r.sequence_number - 1
                                   /\ r.previous_hash = p.hash
    /\ \A a, b \in audit_log :
          /\ a.id < b.id => a.sequence_number < b.sequence_number
          /\ b.id = a.id + 1 => b.previous_hash = a.hash

C3_Witness ==
    \E a, b, c \in audit_log :
        /\ a.sequence_number = 1 /\ b.sequence_number = 2 /\ c.sequence_number = 3
        /\ a.previous_hash = GENESIS_HASH
        /\ c.previous_hash = b.hash /\ c.previous_hash # a.hash
        /\ a.timestamp < c.timestamp

\* C4: on a chain the program built, overwriting one hashed column of one entry
\* makes verifyAuditChain answer valid = false with that entry among the
\* broken ones.
C4_FieldTamperDetected ==
    tamper.kind = "field" =>
        LET result == verifyAuditChain(audit_log)
        IN  /\ result.valid = FALSE
            /\ \E i \in 1..Len(result.brokenChains) :
                  result.brokenChains[i].sequenceNumber =
                      RowWithId(tamper.id).sequence_number

C4_Witness ==
    /\ tamper.kind = "field" /\ tamper.field = "tool"
    /\ Cardinality(audit_log) = MaxAuditEntries
    /\ RowWithId(tamper.id).sequence_number = 2
    /\ verifyAuditChain(audit_log).valid = FALSE

\* C5: on a chain the program built, deleting one entry, whatever its
\* position, makes verifyAuditChain answer valid = false.
C5_DeletionDetected ==
    tamper.kind = "delete" => verifyAuditChain(audit_log).valid = FALSE

\* what verifyAuditChain does answer after a deletion: a break exactly when
\* an entry followed the deleted one
C5_OnlyInnerDeletionDetected ==
    tamper.kind = "delete" =>
        (verifyAuditChain(audit_log).valid = FALSE <=> ~tamper.last)

\* C6: a step of updateAuditEntry changes response_status and error_message of
\* the entry with the given id and nothing else in the table, and the chain
\* verifies as valid after every such step.
UpdateStep ==
    /\ audit_log' # audit_log
    /\ {r.id : r \in audit_log'} = {r.id : r \in audit_log}

C6_UpdateFrame ==
    /\ [][UpdateStep =>
            \E id \in {r.id : r \in audit_log} :
                \A r \in audit_log :
                    \E r2 \in audit_log' :
                        /\ r2.id = r.id
                        /\ Frozen(r2) = Frozen(r)
                        /\ r.id # id => r2 = r]_vars
    /\ [](verifyAuditChain(audit_log).valid)

C6_Witness ==
    /\ Cardinality(audit_log) = MaxAuditEntries
    /\ \E r \in audit_log :
          /\ r.sequence_number = 2
          /\ r.response_status = "success" /\ r.error_message = <<Lit("Policy"), Lit("denied")>>
    /\ \E r \in audit_log : r.sequence_number = 1 /\ r.response_status = NoStatus
    /\ verifyAuditChain(audit_log).valid

-----------------------------------------------------------------------------
(* Properties of the interceptor *)

\* a tools/call request that names a tool
IsToolCall(request) == request.method = m_call /\ request.name # <<>>

AuditedBefore(i) ==
    \E j \in 1..(i - 1) :
        /\ effects[j].kind = "audit"
        /\ effects[j].id = effects[i].id
        /\ \E r \in audit_log :
              /\ r.id = effects[j].auditEntryId
              /\ r.tool = received[effects[i].id].name
              /\ r.verdict \in VerdictStrings

-----------------------------------------------------------------------------
(* Properties of confirmation tokens *)

Validated == lastEval.kind = "validate"

\* the request's token is in the table the call started from: unused, not
\* past its expiry and bound to the request's tool, host and agent
PresentedTokenGood(e) ==
    \E r \in e.confirmation_tokens :
        /\ r.token = e.context.confirmationToken
        /\ r.used = 0
        /\ r.expires_at >= e.at
        /\ r.tool = e.context.tool
        /\ r.host = e.context.host
        /\ r.agent = e.context.agent

\* action of the first enabled rule, in priority order, that matches the request
FirstMatchAction(e) ==
    LET ordered == EnabledRulesOrdered(rules)
        hits == {i \in 1..Len(ordered) : ruleMatches(ordered[i], e.context, e.at)}
    IN  IF hits = {} THEN "none"
        ELSE ordered[CHOOSE i \in hits : \A j \in hits : i <= j].action

\* C11: when the first matching rule is ask, the "confirmed via token" allow is
\* returned only if the presented token exists, is unused, has not expired and
\* is bound to the request's (tool, host, agent).
C11_ConfirmedOnlyWithGoodToken ==
    (Evaluated /\ ConfirmedViaToken(lastEval.verdict)) => PresentedTokenGood(lastEval)

PresentsToken(e) == e.context.confirmationToken # NoToken

PresentedRows(e) ==
    {r \in e.confirmation_tokens : r.token = e.context.confirmationToken}

\* C13 as stated: no token confirms more than one allow; a retry presenting an
\* unused token with the identical (tool, host, agent) is allowed with a
\* reason containing "confirmed" and leaves the token used; a request
\* presenting an already used token is not allowed.
C13_RetryAllowedThenRefused ==
    /\ \A m \in minted : m.allows <= 1
    /\ (Evaluated /\ PresentsToken(lastEval)) =>
          /\ PresentedTokenGood(lastEval) =>
                /\ lastEval.verdict.allowed
                /\ ReasonContains(lastEval.verdict.reason, "confirmed")
                /\ \E r \in confirmation_tokens :
                      r.token = lastEval.context.confirmationToken /\ r.used = 1
          /\ (\E r \in PresentedRows(lastEval) : r.used = 1) =>
                ~lastEval.verdict.allowed

\* C13: no token confirms more than one allow.  Where no gate applies and the
\* first matching rule is ask, a retry presenting an unused token bound to the
\* identical (tool, host, agent) is allowed with the reason "Confirmed via
\* token ..." and leaves the token used, and a request presenting a used token
\* gets the ask verdict again; a used token never confirms.
C13_TokenConfirmsOnce ==
    /\ \A m \in minted : m.allows <= 1
    /\ (Evaluated /\ PresentsToken(lastEval)) =>
          LET gated == \/ CircuitInCooldown(lastEval) \/ QuarantinedAny(lastEval)
                       \/ lastEval.mode = "lockdown"
              askFirst == ~gated /\ FirstMatchAction(lastEval) = "ask"
          IN  /\ (PresentedTokenGood(lastEval) /\ askFirst) =>
                    /\ lastEval.verdict.allowed
                    /\ ConfirmedViaToken(lastEval.verdict)
                    /\ \E r \in confirmation_tokens :
                          r.token = lastEval.context.confirmationToken /\ r.used = 1
              /\ (\E r \in PresentedRows(lastEval) : r.used = 1) =>
                    /\ ~ConfirmedViaToken(lastEval.verdict)
                    /\ askFirst => /\ ~lastEval.verdict.allowed
                                   /\ lastEval.verdict.action = "ask"
                    /\ confirmation_tokens = lastEval.confirmation_tokens

C13_Witness ==
    /\ Evaluated /\ PresentsToken(lastEval)
    /\ \E m \in minted : m.token = lastEval.context.confirmationToken /\ m.allows = 1
    /\ \E r \in PresentedRows(lastEval) : r.used = 1
    /\ FirstMatchAction(lastEval) = "ask"
    /\ lastEval.verdict.action = "ask"

-----------------------------------------------------------------------------
(* Properties of the rate limiter *)

Limited == lastEval.kind = "limit"

\* from any allowed check to any later one, the allowed checks number at most
\* the capacity plus the tokens refilled in that time
WithinBucket(h) ==
    \A i \in 1..Len(h.allowedAt) : \A j \in i..Len(h.allowedAt) :
        j - i + 1 <= h.maxOperations
                     + Floor((h.allowedAt[j] - h.allowedAt[i]) * h.refillRate, TokenUnit)

\* the rule evaluatePolicy matched carries a rate limit
MatchedLimited(e) ==
    \E i \in 1..Len(rules) : /\ rules[i].id = e.verdict.matchedRuleId
                            /\ rateLimitOf(rules[i]) # NoRateLimit

\* C14: when the matched rule carries a rate limit the decision goes through
\* the bucket of (rule_id, tool, host, agent): the bucket exists after the
\* decision, the allowed decisions stay within capacity plus refill, and a
\* decision that is refused is a deny with reason "rate limited".
C14_PolicyConsultsBucket ==
    /\ \A d \in decisions : WithinBucket(d)
    /\ (Evaluated /\ MatchedLimited(lastEval)) =>
          /\ \E b \in rate_limit_buckets :
                SameBucket(b, lastEval.verdict.matchedRuleId, lastEval.context)
          /\ ~lastEval.verdict.allowed =>
                /\ lastEval.verdict.action = "deny"
                /\ ReasonContains(lastEval.verdict.reason, "rate")

\* C15: on one bucket the allowed checks over any elapsed time number at most
\* C + floor(elapsed * r), and a throttled check returns a resetAt later than
\* the time of the check.
C15_BucketBound ==
    /\ \A h \in bucketHistory : WithinBucket(h)
    /\ (Limited /\ ~lastEval.result.allowed) => lastEval.result.resetAt > lastEval.at

\* a bucket emptied by a burst, refilled in part, and a check throttled
C15_Witness ==
    /\ Limited /\ ~lastEval.result.allowed
    /\ lastEval.at > 0
    /\ \E h \in bucketHistory :
          /\ SameBucket(h, lastEval.rule_id, lastEval.context)
          /\ Len(h.allowedAt) > h.maxOperations
    /\ \E b \in rate_limit_buckets :
          /\ SameBucket(b, lastEval.rule_id, lastEval.context)
          /\ b.tokens > 0 /\ b.last_refill < lastEval.at

-----------------------------------------------------------------------------
(* Properties of the circuit breaker *)

DeniedByCircuit(verdict) ==
    /\ ~verdict.allowed
    /\ verdict.action = "deny"
    /\ ReasonContains(verdict.reason, "circuit")

\* C16: the second consecutive failure recorded for a host opens its circuit
\* (a success in between starts the count again); while the circuit is open
\* and less than the cooldown of 120 s has passed since it opened, a request
\* for the host is denied by the circuit gate; the first read after the
\* cooldown moves the host to half-open and the request passes the gate; from
\* half-open a recorded success closes the circuit with failure count 0 and a
\* recorded failure opens it again with opened_at = now.
C16_CircuitBreaker ==
    [][\A host \in Hosts :
          LET had == HasBreaker(circuit_breakers, host)
              count == IF had THEN BreakerOf(circuit_breakers, host).failure_count ELSE 0
              state == IF had THEN BreakerOf(circuit_breakers, host).state ELSE "closed"
              opened == IF had THEN BreakerOf(circuit_breakers, host).opened_at
                        ELSE NULL_TIME
              after == BreakerOf(circuit_breakers', host)
          IN  /\ recordFailure(host) =>
                    /\ after.failure_count = count + 1
                    /\ (count + 1 >= 2 \/ state = "half-open") =>
                          after.state = "open" /\ after.opened_at = now
                    /\ count + 1 < 2 => after.state = "closed"
              /\ recordSuccess(host) =>
                    after.state = "closed" /\ after.failure_count = 0
              /\ (Idle /\ lastEval'.kind = "eval" /\ lastEval'.context.host = host
                       /\ state = "open") =>
                    IF now - opened < 120000
                    THEN /\ DeniedByCircuit(lastEval'.verdict)
                         /\ circuit_breakers' = circuit_breakers
                    ELSE /\ after.state = "half-open"
                         /\ ~DeniedByCircuit(lastEval'.verdict)
    ]_vars

\* a request let through at the end of the cooldown, the host now half-open
C16_Witness ==
    /\ Evaluated
    /\ \E r \in lastEval.circuit_breakers :
          /\ r.host = lastEval.context.host
          /\ r.state = "open" /\ r.failure_count = 2
          /\ lastEval.at - r.opened_at >= 120000
    /\ BreakerOf(circuit_breakers, lastEval.context.host).state = "half-open"
    /\ lastEval.verdict.allowed

-----------------------------------------------------------------------------
(* Properties of the interceptor's forwarding *)

\* the audit entries of the requests written to the downstream process
ForwardedEntries ==
    {r \in audit_log :
        \E i \in 1..Len(effects) : /\ effects[i].kind = "audit"
                                   /\ effects[i].auditEntryId = r.id
                                   /\ effects[i].id \in Forwarded}

\* C17: once two forwarded calls for a host have ended in an error or a
\* timeout with no success among that host's calls, the host's circuit is
\* open, so that the next call for it stops at the circuit gate; and after
\* successful replies only, the host's failure count is 0.
C17_OutcomesDriveCircuit ==
    \A host \in Hosts \cup {h_local} :
        LET ended == {r \in ForwardedEntries : r.host = host}
            failed == {r \in ended : r.response_status \in {"timeout", "error"}}
            succeeded == {r \in ended : r.response_status = "success"}
        IN  /\ (Cardinality(failed) >= 2 /\ succeeded = {}) =>
                  /\ HasBreaker(circuit_breakers, host)
                  /\ BreakerOf(circuit_breakers, host).failure_count >= 2
                  /\ BreakerOf(circuit_breakers, host).state \in {"open", "half-open"}
            /\ (failed = {} /\ succeeded # {}) =>
                  \A r \in circuit_breakers : r.host = host => r.failure_count = 0

\* the audit entry written for request id
EntryOf(id) ==
    CHOOSE r \in audit_log :
        \E i \in 1..Len(effects) : effects[i] = AuditCommitted(id, r.id)

Audited(id) == \E r \in audit_log : \E i \in 1..Len(effects) : effects[i] = AuditCommitted(id, r.id)

\* the replies written to the caller for request id, as positions of effects
RepliesTo(id) ==
    {i \in 1..Len(effects) : effects[i].kind = "reply" /\ effects[i].id = id}

\* C18: a tool call whose verdict action is deny or ask is never written
\* downstream; the caller gets an error reply (-32000 for deny, -32001 for
\* ask, the latter carrying a token minted in that call, unused and bound to
\* the request's tool, host and agent, and given to no other request), the
\* audit entry has response_status error, and every forwarded tool call has
\* an allow or log-only verdict.
C18_BlockedNeverForwarded ==
    \A id \in 1..Len(received) :
        Audited(id) =>
            LET entry == EntryOf(id)
            IN  /\ entry.action \in {"deny", "ask"} =>
                      /\ id \notin Forwarded
                      /\ entry.response_status = "error"
                      /\ \E i \in RepliesTo(id) :
                            effects[i].code = IF entry.action = "deny" THEN -32000
                                              ELSE -32001
                /\ entry.action = "ask" =>
                      \E i \in RepliesTo(id) : \E row \in confirmation_tokens :
                          /\ row.token = effects[i].confirmationToken
                          /\ row.used = 0
                          /\ row.tool = entry.tool /\ row.host = entry.host
                          /\ row.agent = entry.agent
                          /\ row.expires_at > entry.timestamp
                          /\ \A j \in 1..Len(effects) :
                                effects[j].confirmationToken = row.token => j = i
                /\ id \in Forwarded => entry.action \in {"allow", "log-only"}

\* one request answered "confirmation required" with its token, another
\* forwarded under a log-only verdict
C18_Witness ==
    /\ Len(received) = 2
    /\ Audited(1) /\ Audited(2)
    /\ \E a, b \in {1, 2} :
          /\ EntryOf(a).action = "ask"
          /\ a \notin Forwarded
          /\ \E i \in RepliesTo(a) : effects[i].confirmationToken # NoToken
          /\ EntryOf(b).action = "log-only"
          /\ b \in Forwarded

TimeoutReply(id) == WrittenToCaller(id, -32002)

DownstreamReplies(id) ==
    {i \in RepliesTo(id) : effects[i].code \in {0, 1}}

Pending(id) == \E c \in responseCallbacks : c.id = id

\* the steps of a forwarded request: a timeout is reported only when 15,000 ms
\* have passed since it was forwarded with no reply from downstream, and the
\* step that reports it writes the timeout error to the caller, marks the
\* audit entry timeout and removes the pending callback; a reply that arrives
\* while the callback is pending removes it (cancelling the timer), and no
\* timeout is reported for that request afterwards
TimeoutOrReplySteps ==
    [][\A id \in 1..MaxRequests :
          /\ (effects' = Append(effects, TimeoutReply(id))) =>
                /\ Pending(id)
                /\ \A c \in responseCallbacks :
                      c.id = id => /\ now >= c.deadline
                                   /\ c.deadline = EntryOf(id).timestamp + 15000
                /\ DownstreamReplies(id) = {}
                /\ ~Pending(id)'
                /\ EntryOf(id)'.response_status = "timeout"
          /\ (Pending(id) /\ id \in answered' \ answered) =>
                /\ ~Pending(id)'
                /\ EntryOf(id)'.response_status \in {"success", "error"}
          /\ (DownstreamReplies(id) # {} /\ Audited(id)
                 /\ EntryOf(id).response_status # "timeout") =>
                /\ effects' # Append(effects, TimeoutReply(id))
                /\ EntryOf(id)'.response_status # "timeout"
    ]_vars

C20_ExactlyOneReply ==
    \A id \in 1..Len(received) :
        IsToolCall(received[id]) =>
            /\ Cardinality(RepliesTo(id)) <= 1
            /\ RepliesTo(id) # {} =>
                  /\ Audited(id)
                  /\ EntryOf(id).response_status \in {"success", "error", "timeout"}

-----------------------------------------------------------------------------
(* Properties of the interceptor when the downstream process exits *)

\* C21: once the sentinel has terminated on the child's exit, it has the
\* child's exit code (1 when the child had none), no forwarded request is
\* left pending, and every tool call that was forwarded has had a reply
\* written to the caller: the downstream's, a timeout, or the error that
\* fails it at exit.
C21_PendingFailedOnExit ==
    ~Running =>
        /\ exitCode \in {{0}, {1}, {3}}
        /\ responseCallbacks = {}
        /\ \A id \in 1..Len(received) :
              (IsToolCall(received[id]) /\ id \in Forwarded) => RepliesTo(id) # {}

-----------------------------------------------------------------------------
(* Properties of the interceptor's dispatch.  ToolsCallSteps(isCall) says     *)
(* what the step that reads a request does, isCall telling which requests    *)
(* are taken for tool calls.                                                  *)

ReadMode == IF config_mode # NoMode THEN config_mode ELSE "silent-allow"

\* the step that reads request
Reads(request) == received' = Append(received, request)

ToolsCallSteps(isCall(_)) ==
    \A id \in 1..MaxRequests : \A request \in RequestsWithId(id) :
        Reads(request) =>
            IF isCall(request)
            THEN LET context == extractContext(request)
                     out == evaluatePolicy(rules, quarantine, circuit_breakers,
                                           confirmation_tokens, context, ReadMode,
                                           now, 0, <<>>)
                 IN  /\ context # NoContext
                     /\ Cardinality(audit_log' \ audit_log) = 1
                     /\ \A e \in audit_log' \ audit_log :
                           /\ e.tool = context.tool /\ e.host = context.host
                           /\ e.agent = context.agent
                           /\ e.action = out.verdict.action
                           /\ e.matched_rule_id = out.verdict.matchedRuleId
                           /\ e.mode = ReadMode
                           /\ effects'[Len(effects) + 1] = AuditCommitted(id, e.id)
                     /\ Len(effects') = Len(effects) + 2
                     /\ effects'[Len(effects) + 2].kind \in {"forward", "reply"}
                     /\ effects'[Len(effects) + 2].kind = "forward" <=>
                           out.verdict.action \notin {"deny", "ask"}
                     /\ effects'[Len(effects) + 2].kind = "forward" <=>
                           \E c \in responseCallbacks' : c.id = id
            ELSE /\ effects' = Append(effects, WrittenDownstream(id))
                 /\ UNCHANGED <<audit_log, sqlite_sequence, responseCallbacks,
                                confirmation_tokens, quarantine, circuit_breakers>>

HasToolsCallMethod(request) == request.method = m_call

\* C22 as stated: every request whose method is tools/call is evaluated and
\* gets an audit entry before it is written downstream, and every other
\* message is forwarded with no evaluation, audit entry or pending callback.
C22_EveryToolsCallAudited == [][ToolsCallSteps(HasToolsCallMethod)]_vars

\* C22: every request whose method is tools/call and that names a tool
\* (params.name is not empty) is evaluated under the stored mode and gets an
\* audit entry holding that verdict, committed before anything is written
\* downstream or to the caller; it is written downstream, with a pending
\* callback, only when the verdict's action is neither deny nor ask.  Every
\* other message, a tools/call without a tool name included, is written
\* downstream with no evaluation, no audit entry and no pending callback.
C22_NamedToolCallsAudited == [][ToolsCallSteps(IsToolCall)]_vars

\* a tool call audited and forwarded; a handshake and a tools/call without a
\* name forwarded with no audit entry
C22_Witness ==
    /\ Len(received) = 2
    /\ \E a, b \in {1, 2} :
          /\ IsToolCall(received[a]) /\ Audited(a) /\ a \in Forwarded /\ Pending(a)
          /\ ~IsToolCall(received[b]) /\ ~Audited(b) /\ b \in Forwarded /\ ~Pending(b)

-----------------------------------------------------------------------------
(* Properties of confirmation through the interceptor *)

\* request j is request i sent again with the token handed out for i
RetryOf(j, i) ==
    /\ i < j
    /\ received[j].confirmationToken \in TokensRepliedTo(i)
    /\ received[j] = Retry(received[i], j, received[j].confirmationToken)

\* C23: a tool call that was answered with a confirmation token and is sent
\* again, identical, presenting that token before the token expires and under
\* the same mode, is allowed and written downstream.
C23_AskCanBeConfirmed ==
    \A i, j \in 1..Len(received) :
        (RetryOf(j, i) /\ Audited(i) /\ Audited(j)) =>
            LET asked == EntryOf(i)
                retried == EntryOf(j)
            IN  (/\ retried.mode = asked.mode
                 /\ \E row \in confirmation_tokens :
                       /\ row.token = received[j].confirmationToken
                       /\ retried.timestamp < row.expires_at) =>
                    /\ retried.verdict = v_allowed
                    /\ j \in Forwarded

-----------------------------------------------------------------------------
(* Properties of the anomaly annotation.  Unscored is the call that differs  *)
(* from the one in lastEval only in anomalyScore = 0 and no additional risk  *)
(* factors.                                                                   *)

Unscored ==
    evaluatePolicy(rules, lastEval.quarantine, lastEval.circuit_breakers,
                   lastEval.confirmation_tokens, lastEval.context, lastEval.mode,
                   lastEval.at, 0, <<>>)

\* C24: an evaluation returns the allowed flag, action, matched rule,
\* confirmation requirement and reason, and leaves the store, exactly as the
\* evaluation of the same request on the same store under the same mode with
\* anomaly score 0 and no additional risk factors does; so any two evaluations
\* that differ only in those two inputs agree on all of these.
C24_AnomalyOnlyAnnotates ==
    Evaluated =>
        \E base \in {Unscored} :
            /\ lastEval.verdict.allowed = base.verdict.allowed
            /\ lastEval.verdict.action = base.verdict.action
            /\ lastEval.verdict.matchedRuleId = base.verdict.matchedRuleId
            /\ lastEval.verdict.requiresConfirmation = base.verdict.requiresConfirmation
            /\ lastEval.verdict.reason = base.verdict.reason
            /\ quarantine = base.quarantine
            /\ circuit_breakers = base.circuit_breakers
            /\ confirmation_tokens = base.confirmation_tokens

\* a request allowed by a rule with a full anomaly score and two additional
\* risk factors, which show in the risk score and the risk factors only
C24_Witness ==
    /\ Evaluated
    /\ lastEval.anomalyScore = 100
    /\ Len(lastEval.additionalRiskFactors) = 2
    /\ lastEval.verdict.allowed
    /\ lastEval.verdict.matchedRuleId # NoRule
    /\ lastEval.verdict.riskScore # Unscored.verdict.riskScore
    /\ lastEval.verdict.riskFactors # Unscored.verdict.riskFactors

-----------------------------------------------------------------------------
(* Properties of rule selection and of the mode default *)

\* none of steps 1-3 produces the verdict
NoGateFires(e) ==
    ~CircuitInCooldown(e) /\ ~QuarantinedAny(e) /\ e.mode # "lockdown"

EnabledMatching(e) ==
    {i \in 1..Len(rules) : rules[i].enabled = 1 /\ ruleMatches(rules[i], e.context, e.at)}

\* a comes before b: smaller priority number, then earlier created_at
Earlier(a, b) ==
    \/ a.priority < b.priority
    \/ a.priority = b.priority /\ a.created_at < b.created_at

\* the evaluation of lastEval with rule as the only row of the rules table
WithOnly(rule) ==
    evaluatePolicy(<<rule>>, lastEval.quarantine, lastEval.circuit_breakers,
                   lastEval.confirmation_tokens, lastEval.context, lastEval.mode,
                   lastEval.at, lastEval.anomalyScore, lastEval.additionalRiskFactors)

\* C25: when no gate fires and some enabled rule matches, the verdict names an
\* enabled matching rule before which no other enabled matching rule comes in
\* (priority, created_at) order, carries that rule's action (allow in place of
\* ask when an unused token is presented) and is the verdict the evaluation
\* gives with that rule alone in the table: neither the rules after it nor
\* the disabled rules have any effect.
C25_FirstMatchWins ==
    (Evaluated /\ NoGateFires(lastEval) /\ EnabledMatching(lastEval) # {}) =>
        \E i \in EnabledMatching(lastEval) :
            /\ \A j \in EnabledMatching(lastEval) : ~Earlier(rules[j], rules[i])
            /\ lastEval.verdict.matchedRuleId = rules[i].id
            /\ \/ lastEval.verdict.action = rules[i].action
               \/ rules[i].action = "ask" /\ ConfirmedViaToken(lastEval.verdict)
            /\ \E alone \in {WithOnly(rules[i])} :
                  /\ lastEval.verdict = alone.verdict
                  /\ confirmation_tokens = alone.confirmation_tokens

\* two enabled rules with different actions match; the one inserted second
\* comes first in priority order and gives the verdict
C25_Witness ==
    /\ Evaluated /\ NoGateFires(lastEval)
    /\ Len(rules) = 2
    /\ EnabledMatching(lastEval) = {1, 2}
    /\ rules[1].action # rules[2].action
    /\ Earlier(rules[2], rules[1])
    /\ lastEval.verdict.matchedRuleId = rules[2].id
    /\ lastEval.verdict.action = rules[2].action

\* C26: when no gate fires and no enabled rule matches, the verdict names no
\* rule and is: allowed with action allow in silent-allow mode; not allowed
\* with action ask and confirmation required in alert mode; not allowed with
\* action deny in silent-deny mode.  The store is left as it was.
C26_ModeDefault ==
    (Evaluated /\ NoGateFires(lastEval) /\ EnabledMatching(lastEval) = {}) =>
        LET v == lastEval.verdict
        IN  /\ v.matchedRuleId = NoRule
            /\ lastEval.mode = "silent-allow" =>
                  v.allowed /\ v.action = "allow" /\ ~v.requiresConfirmation
            /\ lastEval.mode = "alert" =>
                  ~v.allowed /\ v.action = "ask" /\ v.requiresConfirmation
            /\ lastEval.mode = "silent-deny" =>
                  ~v.allowed /\ v.action = "deny" /\ ~v.requiresConfirmation
            /\ lastEval.mode \in {"silent-allow", "alert", "silent-deny"} =>
                  /\ ReasonContains(v.reason, "No") /\ ReasonContains(v.reason, "matching")
                  /\ confirmation_tokens = lastEval.confirmation_tokens

\* alert mode asks for a request that only a disabled rule and no enabled
\* rule matches, although the request presents an unused token
C26_Witness ==
    /\ Evaluated /\ NoGateFires(lastEval)
    /\ lastEval.mode = "alert"
    /\ \E i \in 1..Len(rules) :
          rules[i].enabled = 0 /\ ruleMatches(rules[i], lastEval.context, lastEval.at)
    /\ EnabledMatching(lastEval) = {}
    /\ \E r \in lastEval.confirmation_tokens :
          r.token = lastEval.context.confirmationToken /\ r.used = 0
    /\ lastEval.verdict.action = "ask"
    /\ lastEval.verdict.requiresConfirmation

-----------------------------------------------------------------------------
(* Properties of quarantine expiry *)

\* the rows of q naming the request's host, tool or agent
RowsFor(q, context) ==
    {r \in q : \/ r.scope = "host" /\ r.target = context.host
               \/ r.scope = "tool" /\ r.target = context.tool
               \/ r.scope = "agent" /\ r.target = context.agent}

\* an evaluation that reaches the quarantine step leaves in the table exactly
\* the rows without expiry and those whose expiry has not passed; it denies
\* for quarantine exactly when one of those names the request's host, tool or
\* agent, so never on account of a row whose expiry has passed
ExpiryOnRead ==
    (Evaluated /\ ~CircuitInCooldown(lastEval)) =>
        /\ quarantine = {r \in lastEval.quarantine : Unexpired(r, lastEval.at)}
        /\ ReasonContains(lastEval.verdict.reason, "quarantined")
               <=> RowsFor(quarantine, lastEval.context) # {}
        /\ RowsFor(quarantine, lastEval.context) # {} => ~lastEval.verdict.allowed

\* a row without expiry, or whose expiry has not passed, leaves the table
\* only by liftQuarantine or by a new quarantine of the same target
KeptUntilLifted ==
    \A r \in quarantine :
        (Unexpired(r, now) /\ r \notin quarantine') =>
            \/ liftQuarantine(r.scope, r.target)
            \/ \E e \in ExpiresIn : Quarantine(r.scope, r.target, e)

\* C27: a quarantine row with an expiry denies the requests naming its target
\* as long as the expiry has not passed; the first evaluation after that which
\* reaches the quarantine step deletes it and is not denied on its account; a
\* row without expiry keeps denying and stays in the table until
\* liftQuarantine removes it or a new quarantine of the same target replaces it.
C27_QuarantineExpiry == []ExpiryOnRead /\ [][KeptUntilLifted]_vars

\* a request for a tool whose quarantine row has expired is evaluated: the row
\* is gone and the request is allowed, while a row without expiry for another
\* agent is still in the table
C27_Witness ==
    /\ Evaluated
    /\ \E r \in RowsFor(lastEval.quarantine, lastEval.context) :
          r.expires_at # NULL_TIME /\ r.expires_at < lastEval.at
    /\ RowsFor(quarantine, lastEval.context) = {}
    /\ \E r \in quarantine : r.expires_at = NULL_TIME
    /\ lastEval.verdict.allowed

-----------------------------------------------------------------------------
(* Properties of the bucket cleanup *)

\* a cleanup deletes only buckets created more than 24 h ago and not touched
\* (refilled by an allowed check) in the last 24 h
CleanupDeletesIdleOnly ==
    CleanupOldBuckets =>
        \A b \in rate_limit_buckets \ rate_limit_buckets' :
            /\ b.created_at < now - DAY_MS
            /\ b.last_refill < now - DAY_MS

\* a check is allowed or throttled as it would be had no cleanup ever run
CleanupUnobservable ==
    Limited => lastEval.result.allowed = lastEval.uncleaned.allowed

\* C28: cleanup removes only buckets created more than 24 h ago and untouched
\* since, and every rate-limit check made after cleanups is allowed or
\* throttled exactly as it would be had no cleanup run.
C28_CleanupHarmless == []CleanupUnobservable /\ [][CleanupDeletesIdleOnly]_vars

-----------------------------------------------------------------------------
(* Properties of the baseline's argument fingerprints *)

\* the fingerprints of the last MAX_FINGERPRINTS argument sets stored
LastInserted ==
    LET n == Min(Len(inserted), 1000)
    IN  [i \in 1..n |-> hashArguments(NormalizedArguments(inserted[Len(inserted) - n + i]))]

\* C29: a baseline's fingerprint list has no duplicates and at most 1000
\* entries, and it is, in insertion order, the list of the last 1000
\* fingerprints stored: when a new one is stored in a full list, the one
\* stored earliest leaves.
C29_FingerprintsBounded ==
    \A b \in anomaly_baselines :
        LET fingerprints == b.argument_fingerprints
        IN  /\ Len(fingerprints) <= 1000
            /\ Cardinality({fingerprints[i] : i \in 1..Len(fingerprints)})
                   = Len(fingerprints)
            /\ fingerprints = LastInserted

\* a full list that has evicted its two earliest fingerprints, the first of
\* them stored again since
C29_Witness ==
    /\ Len(inserted) = 1002
    /\ inserted[1002] = inserted[1]
    /\ \E b \in anomaly_baselines :
          /\ Len(b.argument_fingerprints) = 1000
          /\ b.argument_fingerprints[1000] = hashArguments(NormalizedArguments(inserted[1]))
          /\ b.argument_fingerprints[1] = hashArguments(NormalizedArguments(inserted[3]))

-----------------------------------------------------------------------------
(* Properties of concurrent createAuditEntry calls *)

\* the table is one chain: sequence numbers 1..n, each entry linked to the
\* hash of the one before it, the first to GENESIS
LinearChain ==
    /\ {r.sequence_number : r \in audit_log} = 1..Cardinality(audit_log)
    /\ \A r \in audit_log :
          r.previous_hash =
              IF r.sequence_number = 1 THEN GENESIS_HASH
              ELSE (CHOOSE o \in audit_log :
                        o.sequence_number = r.sequence_number - 1).hash

\* C30: however the statements of two writers' createAuditEntry calls
\* interleave, no call fails, so that every call that has ended has its entry
\* in the table, and the table is a single chain with consecutive sequence
\* numbers.
C30_InterleavedWritersCommit ==
    /\ \A r \in writers : r.pc # "failed"
    /\ LinearChain

-----------------------------------------------------------------------------
(* Properties of concurrent uses of one confirmation token *)

\* C31: however the statements of two uses of the same token interleave,
\* through validateConfirmationToken or through evaluatePolicy on an ask rule,
\* at most one of them succeeds.
C31_AtMostOneUseSucceeds ==
    \A a, b \in attempts :
        (a.ok /\ b.ok /\ a.token = b.token) => a.name = b.name

-----------------------------------------------------------------------------
(* Properties of a request handled while a store write fails *)

Failed == {effects[i].id : i \in {j \in 1..Len(effects) : effects[j].kind = "log"}}

EffectsOf(id, kind) ==
    {i \in 1..Len(effects) : effects[i].id = id /\ effects[i].kind = kind}

\* a request whose handling failed is not forwarded and leaves no audit entry
FailedLeavesNothing ==
    /\ \A id \in Failed : EffectsOf(id, "forward") = {} /\ EffectsOf(id, "audit") = {}
    /\ Cardinality(audit_log) =
           Cardinality({i \in 1..Len(effects) : effects[i].kind = "audit"})

\* C32: a tool call during whose evaluation or audit a store write fails is
\* not forwarded downstream, leaves no audit entry behind, and is answered to
\* the caller with an error reply.
C32_FailedWriteSurfaced ==
    /\ FailedLeavesNothing
    /\ \A id \in Failed :
          \E i \in EffectsOf(id, "reply") : effects[i].code # 0

-----------------------------------------------------------------------------
(* Properties of the circuit breaker reads *)

\* failure threshold reached and cooldown not elapsed
EffectiveOpen(host) ==
    /\ HasBreaker(circuit_breakers, host)
    /\ BreakerOf(circuit_breakers, host).failure_count >= FAILURE_THRESHOLD
    /\ now - BreakerOf(circuit_breakers, host).opened_at < COOLDOWN_MS

\* evaluatePolicy denies a request for the host, no rule or quarantine being
\* in the way, on the circuit gate
CircuitGateDenies(host) ==
    \A c \in {x \in BreakerContexts : x.host = host} :
        evaluatePolicy(rules, quarantine, circuit_breakers, confirmation_tokens, c,
                       "silent-allow", now, 0, <<>>).verdict.action = "deny"

\* C33: for every circuit record recordSuccess and recordFailure can produce
\* and at every time, isHealthy is false exactly when the effective state is
\* open, which is exactly when the circuit gate of evaluatePolicy denies, and
\* retryAfterSeconds is positive exactly then and 0 otherwise.
C33_HealthAgreesWithGate ==
    \A host \in Hosts :
        /\ isHealthy(circuit_breakers, host, now, COOLDOWN_MS) = ~EffectiveOpen(host)
        /\ CircuitGateDenies(host) = EffectiveOpen(host)
        /\ (retryAfterSeconds(circuit_breakers, host, now, COOLDOWN_MS) > 0)
               = EffectiveOpen(host)
        /\ ~EffectiveOpen(host) =>
               retryAfterSeconds(circuit_breakers, host, now, COOLDOWN_MS) = 0

\* an open circuit in the last second of its cooldown
C33_Witness ==
    \E host \in Hosts :
        /\ EffectiveOpen(host)
        /\ now - BreakerOf(circuit_breakers, host).opened_at > COOLDOWN_MS - 1000
        /\ retryAfterSeconds(circuit_breakers, host, now, COOLDOWN_MS) = 1

-----------------------------------------------------------------------------
(* Properties of the half-open circuit *)

\* the requests for the host that were let past the circuit gate and allowed
\* since its circuit became due for half-open.  A row in state half-open has
\* had no success or failure recorded since opened_at: either resets the state.
AdmittedHalfOpen(host) ==
    {e \in audit_log :
        /\ e.host = host
        /\ e.verdict = v_allowed
        /\ e.timestamp >= BreakerOf(circuit_breakers, host).opened_at + COOLDOWN_MS}

\* C34: while a host's circuit is half-open, at most one request for the host
\* is admitted past the circuit gate until a success or a failure is recorded
\* for it.
C34_HalfOpenAdmitsOne ==
    \A host \in Hosts :
        (/\ HasBreaker(circuit_breakers, host)
         /\ BreakerOf(circuit_breakers, host).state = "half-open")
        => Cardinality(AdmittedHalfOpen(host)) <= 1

-----------------------------------------------------------------------------
(* Properties of edits outside the hashed columns *)

UnhashedEdit == tamper.kind = "none" /\ tamper'.kind = "unhashed"

\* C35: verifyAuditChain reads only sequence_number, timestamp, tool, host,
\* agent, verdict, previous_hash and hash: overwriting arguments, action,
\* matched_rule_id, risk_score, risk_factors, mode, response_status or
\* error_message of an entry leaves its answer as it was, and a valid chain is
\* still reported valid.
C35_UnhashedEditsUnseen ==
    /\ [](tamper.kind = "unhashed" => verifyAuditChain(audit_log).valid)
    /\ [][UnhashedEdit => verifyAuditChain(audit_log') = verifyAuditChain(audit_log)]_vars

\* the action of the middle entry of a full chain rewritten from deny to allow
C35_Witness ==
    /\ tamper.kind = "unhashed" /\ tamper.field = "action"
    /\ Cardinality(audit_log) = MaxAuditEntries
    /\ \E r \in audit_log :
          /\ r.id = tamper.id /\ r.sequence_number = 2
          /\ r.verdict = v_denied /\ r.action = "allow"
    /\ verifyAuditChain(audit_log).valid

-----------------------------------------------------------------------------
(* Properties of the log after retention *)

OldestKept == CHOOSE r \in audit_log : \A o \in audit_log : r.sequence_number <= o.sequence_number

NewestKept == CHOOSE r \in audit_log : \A o \in audit_log : o.sequence_number <= r.sequence_number

\* a non-empty prefix is gone and at least one entry is left
PrefixDeleted == audit_log # {} /\ OldestKept.sequence_number > 1

\* verifyAuditChain reports one break, at the oldest entry kept, whose
\* previous_hash is the hash of a deleted entry and not the genesis hash
BrokenAtOldestKept ==
    PrefixDeleted =>
        /\ OldestKept.previous_hash # GENESIS_HASH
        /\ verifyAuditChain(audit_log) =
               [valid |-> FALSE, totalEntries |-> Cardinality(audit_log),
                brokenChains |-> <<Broken(OldestKept.sequence_number, GENESIS_HASH,
                                          OldestKept.previous_hash)>>]

\* an entry created while entries are left continues from the newest of them
ContinuesFromNewestKept ==
    (audit_log # {} /\ Cardinality(audit_log') > Cardinality(audit_log)) =>
        \E e \in audit_log' \ audit_log :
            /\ e.sequence_number = NewestKept.sequence_number + 1
            /\ e.previous_hash = NewestKept.hash

\* C36: after applyRetention has deleted a non-empty prefix of a valid log and
\* left at least one entry, verifyAuditChain reports the chain invalid at the
\* oldest surviving entry, whose previous_hash is not the genesis hash, and
\* entries created afterwards continue from the highest surviving sequence
\* number and hash.
C36_RetentionBreaksAtOldest ==
    /\ []BrokenAtOldestKept
    /\ [][ContinuesFromNewestKept]_vars

\* entries 1 and 2 deleted, entry 5 created after the deletion
C36_Witness ==
    /\ {r.sequence_number : r \in audit_log} = {3, 4, 5}
    /\ ~verifyAuditChain(audit_log).valid

-----------------------------------------------------------------------------
(* Properties of the resetAt of a throttled check *)

\* the step is a check on a bucket for which a throttled check, with no
\* allowed check since, returned a resetAt that has come (promised holds the
\* earliest such resetAt of the bucket)
CheckAfterReset ==
    /\ lastEval.kind = "none" /\ lastEval'.kind = "limit"
    /\ lastEval'.rateLimit.refillRate > 0
    /\ \E p \in promised :
          /\ SameBucket(p, lastEval'.rule_id, lastEval'.context)
          /\ now >= p.resetAt

\* C37 as stated: after a throttled check on a bucket with a positive refill
\* rate returned resetAt, a check on the same bucket at or after resetAt is
\* allowed, provided no check consumed a token in between, however many
\* throttled checks were made in the meantime.
C37_AllowedAfterReset ==
    [][CheckAfterReset => lastEval'.result.allowed]_vars

\* C37, for buckets that can hold a token: the same, for a rate limit whose
\* maxOperations is at least 1.
C37_AllowedAfterResetWithCapacity ==
    [][(CheckAfterReset /\ lastEval'.rateLimit.maxOperations >= 1)
          => lastEval'.result.allowed]_vars

\* a check allowed at the very resetAt an earlier throttled check returned,
\* a quarter second into the refill
C37_Witness ==
    /\ lastEval.kind = "limit"
    /\ lastEval.result.allowed
    /\ lastEval.rateLimit.maxOperations >= 1
    /\ lastEval.promisedAt = {lastEval.at}
    /\ lastEval.at = 1250

-----------------------------------------------------------------------------
(* Properties of the gateway bridge *)

Calls == 1..Len(bridge.requests)

\* a call made while not connected is rejected at once, and only such a call
RejectedUnconnected ==
    \A n \in Calls :
        bridge.requests[n].connected <=> bridge.requests[n].outcome # "notConnected"

\* a settled call has no entry in the map and no timer
SettledLeavesNothing ==
    \A n \in Calls :
        bridge.requests[n].outcome # "pending" =>
            /\ \A e \in bridge.pendingRequests : e.n # n
            /\ ~bridge.requests[n].timer

\* a settled call stays as it settled, and a timeout comes no sooner than the
\* request timeout after the call
SettlesOnce ==
    \A n \in Calls :
        /\ bridge.requests[n].outcome # "pending" =>
               bridge'.requests[n].outcome = bridge.requests[n].outcome
        /\ (bridge.requests[n].outcome = "pending"
              /\ bridge'.requests[n].outcome = "timeout") =>
               now >= bridge.requests[n].sentAt + REQUEST_TIMEOUT_MS

\* every call settles
Settles ==
    \A n \in 1..MaxBridgeRequests :
        (n \in Calls) ~> (n \in Calls /\ bridge.requests[n].outcome # "pending")

\* C38 as stated: every request sent through the bridge settles exactly once,
\* with the matching response, with a timeout error after the request
\* timeout, or with a disconnect error when the socket closes, and no other
\* way; its entry is out of the pending map once it has settled; a request
\* made while not connected is rejected at once.
C38_ThreeOutcomes ==
    /\ [](\A n \in Calls :
            bridge.requests[n].connected =>
                bridge.requests[n].outcome \in
                    {"pending", "response", "timeout", "disconnected"})
    /\ [](RejectedUnconnected /\ SettledLeavesNothing)
    /\ [][SettlesOnce]_vars
    /\ Settles

\* C38, with the fourth outcome: every request sent through the bridge
\* settles exactly once, with the matching response, with a timeout error
\* after the request timeout, with a disconnect error when the socket closes,
\* or with the error ws.send reports; its entry is out of the pending map once
\* it has settled; a request made while not connected is rejected at once.
C38_RequestsSettleOnce ==
    /\ [](\A n \in Calls :
            bridge.requests[n].connected =>
                bridge.requests[n].outcome \in
                    {"pending", "response", "timeout", "disconnected", "sendError"})
    /\ [](RejectedUnconnected /\ SettledLeavesNothing)
    /\ [][SettlesOnce]_vars
    /\ Settles

\* the connect request answered, one status request timed out, another one
\* rejected by the close of the socket
C38_Witness ==
    /\ Len(bridge.requests) = MaxBridgeRequests
    /\ {bridge.requests[n].outcome : n \in Calls} = {"response", "timeout", "disconnected"}
    /\ bridge.pendingRequests = {}

-----------------------------------------------------------------------------
(* Properties of the verdict's fields *)

\* allowed and requiresConfirmation follow from action
Coherent(verdict) ==
    /\ verdict.allowed <=> verdict.action \in {"allow", "log-only"}
    /\ verdict.requiresConfirmation <=> verdict.action = "ask"

\* what the interceptor did next for the request whose audit entry is id
ActedOn(id) ==
    {effects[i + 1] : i \in {j \in 1..(Len(effects) - 1) :
                                 /\ effects[j].kind = "audit"
                                 /\ effects[j].auditEntryId = id}}

\* the audit verdict string says what the interceptor did
AuditAgrees(e) ==
    /\ ActedOn(e.id) # {}
    /\ \A did \in ActedOn(e.id) :
          /\ e.verdict = v_allowed <=> did.kind = "forward"
          /\ e.verdict = v_denied <=> (did.kind = "reply" /\ did.code = -32000)
          /\ e.verdict = v_asked <=> (did.kind = "reply" /\ did.code = -32001)
    /\ e.verdict = v_allowed <=> e.action \in {"allow", "log-only"}
    /\ e.verdict = v_asked <=> e.action = "ask"
    /\ e.verdict = v_denied <=> e.action = "deny"

\* C39: every verdict evaluatePolicy returns has allowed true exactly when
\* action is allow or log-only and requiresConfirmation true exactly when
\* action is ask; and the verdict string of every audit entry the interceptor
\* wrote (allowed, denied, asked) agrees with what it did with the request:
\* forwarded it, answered -32000, or answered -32001.
C39_VerdictCoherent ==
    /\ lastEval.kind = "eval" => Coherent(lastEval.verdict)
    /\ \A e \in audit_log : AuditAgrees(e)

\* a call confirmed through a token has just been answered, after the proxy
\* has denied one request and asked for confirmation of another
C39_Witness ==
    /\ lastEval.kind = "eval"
    /\ ConfirmedViaToken(lastEval.verdict)
    /\ {e.verdict : e \in audit_log} = {v_denied, v_asked}
    /\ \E i \in 1..Len(effects) : effects[i].kind = "reply" /\ effects[i].code = -32000
    /\ \E i \in 1..Len(effects) : effects[i].kind = "reply" /\ effects[i].code = -32001

====
